---- MODULE Spec2Model ----
(***************************************************************************)
(* Bounded-concurrency batch HTTP runner (src/test183.py and               *)
(* src/251110_확인해.py): main -> process_case -> process_one_row ->       *)
(* request_with_retry, with the two JSONL output streams written by        *)
(* to_jsonl.  test183.py collects results with asyncio.as_completed,       *)
(* 251110_확인해.py with asyncio.gather; the variable mode says which.     *)
(*                                                                         *)
(* Two-stage intent pipeline (src/intent_classify_test_code.py): main ->   *)
(* robust_post -> post_json, the two result lists and write_jsonl.         *)
(***************************************************************************)
EXTENDS Integers, Sequences, FiniteSets, TLC

(* ---- bounds of the model ---- *)
\* rows of one input file (a DataFrame of 0..MaxRows rows)
MaxRows == 3
\* CONCURRENCY = 10 in the source; scaled so that rows compete for slots
CONCURRENCY == 2
\* FLUSH_EVERY = 200 in the source; scaled so that mid-stream flushes happen
FLUSH_EVERY == 2

\* the largest TASK_QUEUE_SIZE the worker is run with
MaxQueue == 2
\* the tasks task_client.get_task gives in a run of the worker
MaxTasks == 3

(* ---- program constants ---- *)
\* RETRIES = 2 in the source; RETRIES is a tunable and the model explores it
\* from -1 up to the source's value
MaxRetries == 2
\* BACKOFF_BASE = 0.8 seconds, in tenths of a second
BACKOFF_BASE == 8

\* MAX_CNT = 50 in the source; MAX_CNT is a tunable and the model explores it
\* from 0 up to MaxRows + 1
MAX_CNT_SRC == 50

\* the registry of cases, each by its three lists of paths: case1_1 has one
\* io pair, case1_2 has two
CASES ==
    << [input_files  |-> <<"internal.xlsx">>,
        output_files |-> <<"1_1_inner_results">>,
        err_files    |-> <<"1_1_inner_errs">>],
       [input_files  |-> <<"internal.xlsx", "onnara.xlsx">>,
        output_files |-> <<"1_2_inner_results", "1_2_onnara_results">>,
        err_files    |-> <<"1_2_inner_errs", "1_2_onnara_errs">>] >>

\* the output paths of the registry
Paths ==
    UNION {{c.output_files[k] : k \in DOMAIN c.output_files}
              \cup {c.err_files[k] : k \in DOMAIN c.err_files} :
           c \in {CASES[n] : n \in DOMAIN CASES}}

VARIABLES
    mode,           \* "as_completed" (test183.py) or "gather" (251110_확인해.py)
    RETRIES,        \* the RETRIES tunable, fixed at startup
    api,            \* the behaviour of the remote API in this run, a name of Apis or Scripts
    cases,          \* the confs main passes to process_case, in order
    inputs,         \* the kind of input files of this run, a name of Files
    USE_BREAKER,    \* the USE_BREAKER tunable (251110_확인해.py only)
    MAX_CNT,        \* the MAX_CNT tunable (251110_확인해.py only)
    dur,            \* the times, in ticks, a POST can take in this run
    bodys,          \* the dict conf["bodys"], passed as base_body to every row task
    now,            \* the reading of time.perf_counter(), in ticks
    phase,          \* position of main/process_case
    caseIdx,        \* index of the case main is at
    fileIdx,        \* index of the io pair process_case is at
    sem,            \* free slots of asyncio.Semaphore(CONCURRENCY); -1 before the first case
    excel,          \* what pd.read_excel gave for the current input file
    rows,           \* df of the current file: rows[i] is the query cell of row i
    nTasks,         \* len(tasks)
    tpc,            \* position of each row task (coroutine process_one_row)
    attempt,        \* loop variable of request_with_retry of each task
    resp,           \* per task: the outcome of its last client.post (None: none, or one in flight)
    json_body,      \* per task: the local json_body, the body of its client.post calls
    start,          \* per task: the local start of request_with_retry
    posts,          \* per task: the client.post calls its running request_with_retry has completed
    sleeps,         \* per task: the asyncio.sleep arguments of its running request_with_retry
    result,         \* per task: what process_one_row returned
    doneQ,          \* tasks in the order they finished (what as_completed yields)
    idx,            \* enumerate index of the sink loop
    sunk,           \* the tasks whose results the sink loop has taken, in order
    success_batch,
    error_batch,
    outFile,        \* lines appended to io.out_path
    errFile,        \* lines appended to io.err_path
    disk,           \* the content of every output path an io pair still writes to
    writes,         \* the to_jsonl calls made for the current file, in order
    queries,        \* intent pipeline: the list queries of main
    ipc,            \* intent pipeline: position of main
    qi,             \* intent pipeline: the index i of "enumerate(queries, start=1)"
    rp_attempt,     \* intent pipeline: the local attempt of the running robust_post
    last_exc,       \* intent pipeline: the local last_exc of the running robust_post
    llm_resp,       \* intent pipeline: the outcome of the last client.post
    expand_call,    \* intent pipeline: the local expand_call of main
    query_complete, \* intent pipeline: the local query_complete of main
    intent_call,    \* intent pipeline: the local intent_call of main
    results_ok,
    results_failed,
    jsonl,          \* intent pipeline: the files RESULTS_JSONL and FAILED_JSONL
    TASK_QUEUE_SIZE, \* worker: settings.TASK_QUEUE_SIZE, the maxsize of the queue
    queue,          \* worker: the items of the asyncio.Queue, oldest first
    ppc,            \* worker: position of poll_task
    fetched_task,   \* worker: the local fetched_task of poll_task
    fetched,        \* worker: the tasks get_task has returned, in order
    wpc,            \* worker: position of each handle_task
    task_info,      \* worker: the local task_info of each handle_task
    task_status,    \* worker: the local status of each handle_task
    raised,         \* worker: the exception each handle_task has pending
    received,       \* worker: the ids of the tasks queue.get has returned, in order
    updates,        \* worker: the statuses given to task_client.update_task, by task id
    task_dones,     \* worker: the calls of queue.task_done, counted by task id
    error_messages  \* worker: the calls of bot_manager.send_error_message, by task id

vars == <<mode, RETRIES, api, cases, inputs, USE_BREAKER, MAX_CNT, dur, bodys,
          now, phase, caseIdx, fileIdx, sem, excel, rows, nTasks, tpc, attempt, resp,
          json_body, start, posts, sleeps, result, doneQ, idx, sunk, success_batch,
          error_batch, outFile, errFile, disk, writes, queries, ipc, qi, rp_attempt,
          last_exc, llm_resp, expand_call, query_complete, intent_call, results_ok,
          results_failed, jsonl, TASK_QUEUE_SIZE, queue, ppc, fetched_task, fetched,
          wpc, task_info, task_status, raised, received, updates, task_dones,
          error_messages>>

taskVars == <<tpc, attempt, resp, json_body, start, posts, sleeps, result, doneQ>>
sinkVars == <<idx, sunk, success_batch, error_batch, outFile, errFile, writes>>
confVars == <<mode, RETRIES, api, cases, inputs, USE_BREAKER, MAX_CNT, dur>>
pipeVars == <<queries, ipc, qi, rp_attempt, last_exc, llm_resp, expand_call,
              query_complete, intent_call, results_ok, results_failed, jsonl>>
workerVars == <<TASK_QUEUE_SIZE, queue, ppc, fetched_task, fetched, wpc, task_info,
                task_status, raised, received, updates, task_dones, error_messages>>
\* the state of the scripts other than the batch runner
otherVars == <<pipeVars, workerVars>>

Rows == 1..MaxRows

\* Python's None
None == [kind |-> "None"]
\* a status_code of None
NoStatus == 0 - 1

(* ---- the remote API: what one client.post can do ---- *)
Responses ==
    { [kind |-> "response", status |-> 200, json |-> TRUE],
      [kind |-> "response", status |-> 200, json |-> FALSE],
      [kind |-> "response", status |-> 500, json |-> FALSE],
      [kind |-> "ReadTimeout", status |-> NoStatus, json |-> FALSE],
      [kind |-> "Exception", status |-> NoStatus, json |-> FALSE] }

\* client.post raising httpx.ConnectTimeout, which is a TimeoutException as
\* httpx.ReadTimeout is, and no ReadTimeout
ConnectTimeout == [kind |-> "ConnectTimeout", status |-> NoStatus, json |-> FALSE]

\* the behaviours of the API, by name: the outcomes it can give to any POST
Apis ==
    [any       |-> Responses,
     erring    |-> Responses \cup {ConnectTimeout},
     answering |-> {r \in Responses : r.kind = "response" /\ (r.json \/ r.status = 500)},
     failing   |-> {r \in Responses : r.kind # "response" \/ r.json \/ r.status = 500}]

\* the behaviours of the API that follow a script, by name: the outcome of a
\* row's first POST, of its second, ...
Scripts ==
    [degrading |-> << [kind |-> "response", status |-> 500, json |-> FALSE],
                      [kind |-> "ReadTimeout", status |-> NoStatus, json |-> FALSE],
                      [kind |-> "Exception", status |-> NoStatus, json |-> FALSE] >>]

RECURSIVE Pow2(_)
Pow2(n) == IF n <= 0 THEN 1 ELSE 2 * Pow2(n - 1)

\* Backoff with "**" read as "*"
BackoffProduct(a) == BACKOFF_BASE * (2 * a)

\* the argument of asyncio.sleep after failed attempt a
Backoff(a) == BACKOFF_BASE * Pow2(a)

\* Attempts of a loop that tests its bound after the body
AttemptsBodyFirst == 0..(IF RETRIES < 0 THEN 0 ELSE RETRIES)

\* range(RETRIES + 1)
Attempts == 0..RETRIES

\* a latency of None
NoLatency == 0 - 1

\* the tuple request_with_retry returns: (ok, response_json, status, err_msg,
\* latency)
Ret(ok, body, status, msg, latency) ==
    [ok |-> ok, body |-> body, status |-> status, msg |-> msg, latency |-> latency]

\* OkRet in which a body that is not JSON makes a failure
OkRetStrict(r, latency) ==
    IF r.json THEN Ret(TRUE, "json", r.status, "", latency)
    ELSE Ret(FALSE, "", NoStatus, <<"exception", "JSONDecodeError">>, NoLatency)

\* the return of request_with_retry for a response with a 2xx status:
\* resp.json(), or resp.text when the body is not JSON
OkRet(r, latency) == Ret(TRUE, IF r.json THEN "json" ELSE "text", r.status, "", latency)

\* FailRet that returns the failure of a first attempt answered with 500,
\* whatever the last attempt ended in
FailRetFirst(r) == Ret(FALSE, "", 500, <<"HTTP", 500, "text">>, NoLatency)

\* the return of request_with_retry on the last attempt's failure; the
\* message f"HTTP {resp.status_code}: {err_text}" is kept as its parts
FailRet(r) ==
    IF r.kind = "response" THEN Ret(FALSE, "", r.status, <<"HTTP", r.status, "text">>, NoLatency)
    ELSE IF r.kind = "ReadTimeout" THEN Ret(FALSE, "", NoStatus, <<"timeout">>, NoLatency)
    ELSE Ret(FALSE, "", NoStatus, <<"exception", r.kind>>, NoLatency)

\* the fall-through return after the loop
UnknownRet == Ret(FALSE, "", NoStatus, <<"unknown">>, NoLatency)

\* IsSuccess that takes a 2xx response with a non-JSON body for a failure
IsSuccessJsonOnly(r) == r.kind = "response" /\ 200 <= r.status /\ r.status < 300 /\ r.json

\* "200 <= resp.status_code < 300"
IsSuccess(r) == r.kind = "response" /\ 200 <= r.status /\ r.status < 300

(* ---- time: a tick is 0.00001 s ---- *)

\* ticks in a tenth of a second, the unit of BACKOFF_BASE
TICKS == 10000

\* round(latency, 4) of a time in ticks: the nearest multiple of ten ticks
Round4(t) == ((t + 5) \div 10) * 10

\* the success line of row i: the row's fields (here its position), the API's
\* body and "round(latency, 4) if latency is not None else None"
success_record(i, api_json, latency) ==
    [row |-> i, results |-> api_json,
     latency |-> IF latency # NoLatency THEN Round4(latency) ELSE NoLatency]

\* the error line of row i: the row's fields (here its position) and the error
error_record(i, type, message, status) ==
    [row |-> i, error |-> [type |-> type, status |-> status, message |-> message]]

\* ErrType that knows no timeout
ErrTypeNoTimeout(rt) ==
    IF rt.status # NoStatus /\ rt.status # 0 THEN "http_status" ELSE "exception"

\* the err_type expression of process_one_row
ErrType(rt) ==
    IF rt.status # NoStatus /\ rt.status # 0 THEN "http_status"
    ELSE IF rt.msg = <<"timeout">> THEN "timeout" ELSE "exception"

\* RowResult with the error record built only when a status code is present
RowResultStatusOnly(i, rt) ==
    IF rt.ok THEN [succ |-> success_record(i, rt.body, rt.latency), err |-> None]
    ELSE IF rt.status # NoStatus
    THEN [succ |-> None, err |-> error_record(i, ErrType(rt), rt.msg, rt.status)]
    ELSE [succ |-> None, err |-> None]

\* what process_one_row returns after request_with_retry returned rt
RowResult(i, rt) ==
    IF rt.ok THEN [succ |-> success_record(i, rt.body, rt.latency), err |-> None]
    ELSE [succ |-> None, err |-> error_record(i, ErrType(rt), rt.msg, rt.status)]

BlankResult == [succ |-> None, err |-> None]

Truthy(x) == x # None

\* all sequences over S of length 0..n
RECURSIVE SeqsUpTo(_, _)
SeqsUpTo(S, n) ==
    IF n = 0 THEN {<<>>}
    ELSE LET prev == SeqsUpTo(S, n - 1)
         IN prev \cup {Append(s, x) : s \in {q \in prev : Len(q) = n - 1}, x \in S}

(* ---- the request template of a case ---- *)

\* conf["url"] and conf["headers"]
URL == "retrieve"
HEADERS == [k \in {"Content-Type", "Accept"} |-> "application/json"]

\* conf["bodys"] as the registry has it
BODYS == [collection_name |-> "busan_city", filter |-> "group"]

\* a dict with key set to value
SetItem(d, key, value) ==
    [k \in DOMAIN d \cup {key} |-> IF k = key THEN value ELSE d[k]]

\* build_body that sets the key in base_body itself
build_body_inplace(base_body, question) ==
    [base_body |-> SetItem(base_body, "queries", <<question>>),
     body      |-> SetItem(base_body, "queries", <<question>>)]

\* build_body: "body = dict(base_body)", a copy, then
\* body["queries"] = [str(question)]; the result is the body and what the
\* caller's base_body is afterwards
build_body(base_body, question) ==
    [base_body |-> base_body,
     body      |-> SetItem(base_body, "queries", <<question>>)]

\* the arguments of "client.post(url, headers=headers, json=json_body)"
Request(url, headers, body) == [url |-> url, headers |-> headers, json |-> body]

(* ---- the input files: DataFrames and their query cells ---- *)

\* a missing cell (NaN); a cell with text is the sequence of its characters
NaN == <<"nan">>

\* the cells a query column can hold: missing, empty, whitespace only, a
\* question, a question with whitespace around it
Cells == {NaN, <<>>, <<" ">>, <<" ", " ">>, <<"q">>, <<" ", "q", " ">>}

\* str.lstrip()
RECURSIVE LStrip(_)
LStrip(s) == IF s # <<>> /\ Head(s) = " " THEN LStrip(Tail(s)) ELSE s

\* str.rstrip()
RECURSIVE RStrip(_)
RStrip(s) ==
    IF s # <<>> /\ s[Len(s)] = " " THEN RStrip(SubSeq(s, 1, Len(s) - 1)) ELSE s

\* str.strip()
Strip(s) == RStrip(LStrip(s))

\* IsBlank without the pd.isna test
IsBlankNoNaN(q) == Strip(q) = <<>>

\* IsBlank that takes only the empty string for blank
IsBlankNoStrip(q) == q = NaN \/ q = <<>>

\* "pd.isna(question) or str(question).strip() == ''"
IsBlank(q) == q = NaN \/ Strip(q) = <<>>

\* the required columns of load_dataframe: the query column and, standing for
\* the others, one more
Required == {"question", "file"}

\* a DataFrame: its columns and the cells of its query column
Frame(columns, q) == [columns |-> columns, q |-> q]

\* missing that looks for the query column only
missingQueryOnly(df) == {"question"} \ df.columns

\* "missing = [c for c in required if c not in df.columns]"
missing(df) == Required \ df.columns

\* the DataFrames with every required column whose query cells are in C
Frames(C) == {Frame(Required, q) : q \in SeqsUpTo(C, MaxRows)}

\* DataFrames of one row that lack a required column
BadFrames == {Frame({"question"}, <<<<"q">>>>), Frame({"file"}, <<<<"q">>>>)}

\* the cells of the everyday run: a question, or nothing
PlainCells == {<<"q">>, <<>>}

\* the DataFrames with every required column whose query cells are questions,
\* but for at most one cell, which is any of Cells
OneOdd ==
    {Frame(Required, [k \in 1..n |-> IF k = j THEN c ELSE <<"q">>]) :
        n \in 0..MaxRows, j \in 1..MaxRows, c \in Cells}

\* the input files a run can find, by the name of the run's kind: what
\* pd.read_excel can give for an input file
Files ==
    [plain     |-> Frames(PlainCells),
     asked     |-> Frames({<<"q">>}),
     malformed |-> Frames(PlainCells) \cup BadFrames,
     leading   |-> Frames({<<"q">>}) \cup {Frame(Required, <<<<>>, <<"q">>>>)},
     odd       |-> OneOdd,
     three     |-> {Frame(Required, <<<<"q">>, <<"q">>, <<"q">>>>),
                    Frame(Required, <<<<>>, <<"q">>>>)}]

(* ---- the cases ---- *)

\* CaseIO
CaseIO(i, o, e) == [input_path |-> i, out_path |-> o, err_path |-> e]

\* Mismatch that compares only the input and the output list
MismatchInOut(conf) == ~(Len(conf.input_files) = Len(conf.output_files))

\* the length check of pair_io
Mismatch(conf) ==
    ~(Len(conf.input_files) = Len(conf.output_files)
        /\ Len(conf.output_files) = Len(conf.err_files))

\* the smallest of three lengths (where zip stops)
Min3(a, b, c) == IF a <= b /\ a <= c THEN a ELSE IF b <= c THEN b ELSE c

\* pair_io of a conf that passes the length check: the zip of the three lists
pair_io(conf) ==
    [k \in 1..Min3(Len(conf.input_files), Len(conf.output_files), Len(conf.err_files)) |->
        CaseIO(conf.input_files[k], conf.output_files[k], conf.err_files[k])]

\* the io pair process_case is at
io == pair_io(cases[caseIdx])[fileIdx]

\* the output paths that io pairs after pair f of case c write to
LaterPaths(c, f) ==
    {p \in Paths :
        \E c2 \in c..Len(cases) :
           \E f2 \in 1..Len(pair_io(cases[c2])) :
              /\ (c2 > c \/ f2 > f)
              /\ p \in {pair_io(cases[c2])[f2].out_path, pair_io(cases[c2])[f2].err_path}}

\* to_jsonl that opens the file with mode "w"
to_jsonl_truncate(content, records) == records

\* the content of a file after to_jsonl(path, records): opened with mode "a"
to_jsonl(content, records) == content \o records

(* ---- the intent pipeline: values ---- *)

\* RETRY of intent_classify_test_code.py
RETRY == 2

\* Python objects and JSON values, by their type: None, a dict with its
\* items, a str, an int, a non-empty list
PyNone == [t |-> "NoneType"]
Dict(d) == [t |-> "dict", d |-> d]
Str(s) == [t |-> "str", s |-> s]
Num == [t |-> "int"]
List == [t |-> "list"]
EmptyDict == Dict(<<>>)

\* the AttributeError of ".get" on an object that is no dict
AttributeError == [t |-> "AttributeError"]

\* Get that takes every object for a dict
GetLenient(v, key, default) ==
    IF v.t = "dict" /\ key \in DOMAIN v.d THEN v.d[key] ELSE default

\* "v.get(key, default)": raises on an object that is no dict (also when
\* evaluating v raised), gives the item when the key is present, even when the
\* item is None
Get(v, key, default) ==
    IF v.t # "dict" THEN AttributeError
    ELSE IF key \in DOMAIN v.d THEN v.d[key] ELSE default

\* "not v"
Falsy(v) == v = PyNone \/ v = EmptyDict \/ v = Str("")

\* "v or {}"
OrEmpty(v) == IF Falsy(v) THEN EmptyDict ELSE v

\* resp.json() raising: the body is no JSON
NotJson == [t |-> "JSONDecodeError"]

\* the texts an answer can be: prose without a JSON block, a block that fails
\* validation (of either kind), a query block with an empty query_complete, a
\* good query block, an intent block with "intent": null, a good intent block
Texts == {"prose", "broken_query", "blank_query", "query", "broken_intent",
          "no_intent", "intent"}

\* the bodies of a 2xx answer: no JSON, null, a list, a dict whose llm_result
\* is null, one whose answer is a number, one whose answer is a text
LlmBodies ==
    {NotJson, PyNone, List, Dict([llm_result |-> PyNone]),
     Dict([llm_result |-> Dict([answer |-> Num])])}
       \cup {Dict([llm_result |-> Dict([answer |-> Str(s)])]) : s \in Texts}

\* what one client.post of the pipeline can do: raise, answer 500 with an
\* error body, answer 200 with one of LlmBodies
LlmApi ==
    {[kind |-> "raise", exc |-> e] : e \in {"ConnectError", "ReadTimeout"}}
       \cup {[kind |-> "response", status_code |-> 500, json |-> Dict([detail |-> Str("error")])]}
       \cup {[kind |-> "response", status_code |-> 200, json |-> b] : b \in LlmBodies}

\* post_json: (status_code, body) with the body wrapped in {"raw_text": ...}
\* when it is no JSON (the elapsed time is left out)
post_json(r) ==
    [status |-> r.status_code,
     body   |-> IF r.json = NotJson THEN Dict([raw_text |-> Str("text")]) ELSE r.json]

\* the dict robust_post returns for a response
Answered(pj) == [status_code |-> pj.status, response |-> pj.body]

\* the dict robust_post returns after the loop: repr(last_exc)
GaveUp(e) == [status_code |-> NoStatus, response |-> PyNone, error |-> e]

\* Again with one attempt too many
AgainOnceMore(a) == a <= RETRY + 1

\* "while attempt <= RETRY" and "if attempt <= RETRY"
Again(a) == a <= RETRY

\* "call.get('status_code') and 200 <= call['status_code'] < 300"
HttpOk(call) ==
    /\ call.status_code # NoStatus
    /\ call.status_code # 0
    /\ 200 <= call.status_code
    /\ call.status_code < 300

\* parse_query_answer: the dict of the block's fields, or {"error": ...}
parse_query_answer(answer) ==
    IF answer.s = "query"
    THEN Dict([query_complete |-> Str("complete"), search_queries |-> List])
    ELSE IF answer.s = "blank_query"
    THEN Dict([query_complete |-> Str(""), search_queries |-> List])
    ELSE IF answer.s = "broken_query" THEN Dict([error |-> Str("validation_error")])
    ELSE Dict([error |-> Str("no_json_block_matched")])

\* parse_intent_answer: the dict of the block's fields, or {"error": ...}
parse_intent_answer(answer) ==
    IF answer.s = "intent" THEN Dict([intent |-> Dict([no |-> Num, intent_name |-> Str("name")])])
    ELSE IF answer.s = "no_intent" THEN Dict([intent |-> PyNone])
    ELSE IF answer.s = "broken_intent" THEN Dict([error |-> Str("validation_error")])
    ELSE Dict([error |-> Str("no_json_block_matched")])

\* a verdict of main on a dict that robust_post returned: a failure with
\* its stage and reason, an exception raised, or a pass with the value parsed
Verdict(kind, stage, reason, value) ==
    [kind |-> kind, stage |-> stage, reason |-> reason, value |-> value]

\* the reasons "missing_query_complete" and "missing_intent"
Missing(stage) == IF stage = "expand" THEN "missing_query_complete" ELSE "missing_intent"

\* JudgeGuarded that takes an answer it cannot reach for one that is no string
JudgeGuarded(stage, call) ==
    IF ~HttpOk(call) THEN Verdict("failed", <<stage, "api">>, Str("http_error"), PyNone)
    ELSE LET answer == GetLenient(GetLenient(OrEmpty(call.response), "llm_result", EmptyDict),
                                  "answer", PyNone)
             parsed == IF stage = "expand" THEN parse_query_answer(answer)
                       ELSE parse_intent_answer(answer)
             key    == IF stage = "expand" THEN "query_complete" ELSE "intent"
         IN IF answer.t # "str"
            THEN Verdict("failed", <<stage, "parse">>, Str("answer_not_string"), PyNone)
            ELSE IF "error" \in DOMAIN parsed.d
            THEN Verdict("failed", <<stage, "parse">>, parsed.d.error, parsed)
            ELSE IF Falsy(parsed.d[key])
            THEN Verdict("failed", <<stage, "parse">>, Str(Missing(stage)), parsed)
            ELSE Verdict("passed", <<stage>>, Str(""), parsed.d[key])

\* the verdict of main on the dict call that robust_post returned at stage
\* ("expand" or "intent"): the HTTP check, the answer of the body, the
\* isinstance check, the parser and the check of its result
Judge(stage, call) ==
    IF ~HttpOk(call) THEN Verdict("failed", <<stage, "api">>, Str("http_error"), PyNone)
    ELSE LET answer == Get(Get(OrEmpty(call.response), "llm_result", EmptyDict),
                           "answer", PyNone)
             parsed == IF stage = "expand" THEN parse_query_answer(answer)
                       ELSE parse_intent_answer(answer)
             key    == IF stage = "expand" THEN "query_complete" ELSE "intent"
         IN IF answer = AttributeError
            THEN Verdict("raised", <<stage>>, Str("AttributeError"), PyNone)
            ELSE IF answer.t # "str"
            THEN Verdict("failed", <<stage, "parse">>, Str("answer_not_string"), PyNone)
            ELSE IF "error" \in DOMAIN parsed.d
            THEN Verdict("failed", <<stage, "parse">>, parsed.d.error, parsed)
            ELSE IF Falsy(parsed.d[key])
            THEN Verdict("failed", <<stage, "parse">>, Str(Missing(stage)), parsed)
            ELSE Verdict("passed", <<stage>>, Str(""), parsed.d[key])

\* a file of the pipeline that does not exist
NoFile == [exists |-> FALSE, lines |-> <<>>]

\* write_jsonl that appends
write_jsonl_append(content, records) == [exists |-> TRUE, lines |-> content.lines \o records]

\* write_jsonl: the file opened with mode "w"
write_jsonl(content, records) == [exists |-> TRUE, lines |-> records]

\* the pipeline does not run
PipelineOff ==
    /\ queries = <<>>
    /\ ipc = "off"
    /\ qi = 0
    /\ rp_attempt = 0
    /\ last_exc = "None"
    /\ llm_resp = PyNone
    /\ expand_call = PyNone
    /\ query_complete = PyNone
    /\ intent_call = PyNone
    /\ results_ok = <<>>
    /\ results_failed = <<>>
    /\ jsonl = [p \in {"results.jsonl", "failed.jsonl"} |-> NoFile]

(* ---- the worker: worker_251113.py ---- *)

\* the handle_task coroutines, by worker_id
Workers == {"w1", "w2"}

\* the ids of the tasks task_client.get_task gives
TaskIds == 1..MaxTasks

\* the tasks task_client.get_task gives: a text message, a file upload, and
\* a message whose body has no "source"
TaskKinds == {"text", "file", "no_source"}
Task(id, kind) == [id |-> id, kind |-> kind]

\* what get_task returns when there is no task, and an empty local
NoTask == [id |-> 0, kind |-> "None"]

\* the logged steps of the try block of handle_task for a text message,
\* "02." to "09.", by their numbers
STEPS == <<"02", "03", "04", "05", "06", "07", "08", "09">>

\* an awaited call of a service returns or raises
Awaited == {"returns", "raises"}

\* Full that lets one item more in
FullOffByOne(q, maxsize) == maxsize > 0 /\ Len(q) > maxsize

\* asyncio.Queue.full(): a maxsize of 0 or less is no limit
Full(q, maxsize) == maxsize > 0 /\ Len(q) >= maxsize

\* FieldsLenient that reads a missing "source" as an empty dict
FieldsLenient(task) == "ok"

\* the extraction of the fields of task_info: body.get("source") is None
\* for a body without source, and None.get raises
Fields(task) == IF task.kind = "no_source" THEN "AttributeError" ELSE "ok"

\* no exception is pending
NoExc == "None"

\* the worker does not run
WorkerOff ==
    /\ TASK_QUEUE_SIZE = 0
    /\ queue = <<>>
    /\ ppc = "off"
    /\ fetched_task = NoTask
    /\ fetched = <<>>
    /\ wpc = [w \in Workers |-> "off"]
    /\ task_info = [w \in Workers |-> NoTask]
    /\ task_status = [w \in Workers |-> "None"]
    /\ raised = [w \in Workers |-> NoExc]
    /\ received = <<>>
    /\ updates = [id \in TaskIds |-> <<>>]
    /\ task_dones = [id \in TaskIds |-> 0]
    /\ error_messages = [id \in TaskIds |-> 0]

\* the state main starts in, whatever the configuration
RunnerStart ==
    /\ bodys = BODYS
    /\ now = 0
    /\ phase = "main"
    /\ caseIdx = 1
    /\ fileIdx = 0
    /\ sem = 0 - 1
    /\ excel = None
    /\ rows = <<>>
    /\ nTasks = 0
    /\ tpc = [i \in Rows |-> "none"]
    /\ attempt = [i \in Rows |-> 0]
    /\ resp = [i \in Rows |-> None]
    /\ json_body = [i \in Rows |-> None]
    /\ start = [i \in Rows |-> 0]
    /\ posts = [i \in Rows |-> 0]
    /\ sleeps = [i \in Rows |-> <<>>]
    /\ result = [i \in Rows |-> None]
    /\ doneQ = <<>>
    /\ idx = 0
    /\ sunk = <<>>
    /\ success_batch = <<>>
    /\ error_batch = <<>>
    /\ outFile = <<>>
    /\ errFile = <<>>
    /\ writes = <<>>

\* the batch runner starts, the other scripts do not run
Start == RunnerStart /\ PipelineOff /\ WorkerOff

\* no output file exists
EmptyDisk == [p \in Paths |-> <<>>]

\* one case of one input file, any API behaviour, any RETRIES
Init ==
    /\ mode \in {"as_completed", "gather"}
    /\ RETRIES \in (0 - 1)..MaxRetries
    /\ dur = {0}
    /\ api = "any"
    /\ cases = <<CASES[1]>>
    /\ inputs = "plain"
    /\ USE_BREAKER = FALSE
    /\ MAX_CNT = MAX_CNT_SRC
    /\ disk = EmptyDisk
    /\ Start

\* two cases, of one and of two input files, against an API that answers
\* 200 or 500
InitRun ==
    /\ mode \in {"as_completed", "gather"}
    /\ RETRIES \in 0..1
    /\ dur = {0}
    /\ api = "answering"
    /\ cases = <<CASES[1], CASES[2]>>
    /\ inputs = "plain"
    /\ USE_BREAKER = FALSE
    /\ MAX_CNT = MAX_CNT_SRC
    /\ disk = EmptyDisk
    /\ Start

\* a line that an earlier run left in an output file
OldLine == [row |-> 0, results |-> "old", latency |-> 0]

\* every output file exists already, with one line
OldDisk == [p \in Paths |-> <<OldLine>>]

\* case1_2 with both io pairs writing to the same two paths
SharedConf ==
    [input_files  |-> <<"internal.xlsx", "onnara.xlsx">>,
     output_files |-> <<"1_2_inner_results", "1_2_inner_results">>,
     err_files    |-> <<"1_2_inner_errs", "1_2_inner_errs">>]

\* case1_2 with an entry of one of its three lists left out
BadConfs ==
    { [input_files  |-> <<"internal.xlsx">>,
       output_files |-> <<"1_2_inner_results", "1_2_onnara_results">>,
       err_files    |-> <<"1_2_inner_errs", "1_2_onnara_errs">>],
      [input_files  |-> <<"internal.xlsx", "onnara.xlsx">>,
       output_files |-> <<"1_2_inner_results">>,
       err_files    |-> <<"1_2_inner_errs", "1_2_onnara_errs">>],
      [input_files  |-> <<"internal.xlsx", "onnara.xlsx">>,
       output_files |-> <<"1_2_inner_results", "1_2_onnara_results">>,
       err_files    |-> <<"1_2_inner_errs">>] }

\* runs over output files that exist already and are written to by both io
\* pairs of a case or by the same case run twice (without retries), and runs
\* over cases whose lists do not match and input files that lack a required
\* column (with one retry); the API answers 200 or 500
InitFiles ==
    /\ dur = {0}
    /\ api = "answering"
    /\ \/ /\ mode \in {"as_completed", "gather"}
          /\ RETRIES = 0
          /\ cases = <<SharedConf>>
          /\ inputs = "asked"
          /\ disk = OldDisk
       \/ /\ mode = "gather"
          /\ RETRIES = 0
          /\ cases = <<CASES[1], CASES[1]>>
          /\ inputs = "asked"
          /\ disk = OldDisk
       \/ /\ mode \in {"as_completed", "gather"}
          /\ RETRIES = 1
          /\ cases \in {<<CASES[2]>>} \cup {<<CASES[1], c>> : c \in BadConfs}
                        \cup {<<c, CASES[1]>> : c \in BadConfs}
          /\ inputs = "malformed"
          /\ disk = EmptyDisk
    /\ USE_BREAKER = FALSE
    /\ MAX_CNT = MAX_CNT_SRC
    /\ Start

\* one case of two input files, with one retry, against an API that answers
\* 200 or 500, times out or fails in transport; the files have up to MaxRows
\* rows with a question, or a blank row and one with a question
InitLive ==
    /\ mode \in {"as_completed", "gather"}
    /\ RETRIES = 1
    /\ dur = {0}
    /\ api = "failing"
    /\ cases = <<CASES[2]>>
    /\ inputs = "leading"
    /\ USE_BREAKER = FALSE
    /\ MAX_CNT = MAX_CNT_SRC
    /\ disk = EmptyDisk
    /\ Start

\* one case of one input file, with one retry, against an API that answers
\* 200 or 500: files with every kind of query cell, and runs of
\* 251110_확인해.py with the breaker on and MAX_CNT from 0 to MaxRows + 1
InitRows ==
    /\ RETRIES = 1
    /\ dur = {0}
    /\ api = "answering"
    /\ cases = <<CASES[1]>>
    /\ \/ /\ mode \in {"as_completed", "gather"}
          /\ inputs = "odd"
          /\ USE_BREAKER = FALSE
          /\ MAX_CNT = MAX_CNT_SRC
       \/ /\ mode = "gather"
          /\ inputs = "plain"
          /\ USE_BREAKER = TRUE
          /\ MAX_CNT \in 0..(MaxRows + 1)
    /\ disk = EmptyDisk
    /\ Start

\* one case of one input file whose rows have questions, but for a blank first
\* row in one file: with one retry against an API that can answer with every
\* outcome, connect timeouts included, and with no to MaxRetries retries
\* against an API that degrades from one attempt of a row to the next
InitApi ==
    /\ mode \in {"as_completed", "gather"}
    /\ \/ api = "erring" /\ RETRIES = 1
       \/ api = "degrading" /\ RETRIES \in 0..MaxRetries
    /\ dur = {0}
    /\ cases = <<CASES[1]>>
    /\ inputs = "leading"
    /\ USE_BREAKER = FALSE
    /\ MAX_CNT = MAX_CNT_SRC
    /\ disk = EmptyDisk
    /\ Start

\* the times a POST takes in a run that observes time: a little, which
\* rounds to nothing, or more
Durations == {4, 16}

\* test183.py on one case of one input file, of three rows with questions or
\* of a blank row and one with a question, with one retry, against an API
\* that answers 200 or 500 after one of Durations
InitLatency ==
    /\ mode = "as_completed"
    /\ RETRIES = 1
    /\ api = "answering"
    /\ dur = Durations
    /\ cases = <<CASES[1]>>
    /\ inputs = "three"
    /\ USE_BREAKER = FALSE
    /\ MAX_CNT = MAX_CNT_SRC
    /\ disk = EmptyDisk
    /\ Start

\* the case of two input files followed by the case of one, with input files
\* that can lack a required column, with one retry, against an API that
\* answers 200 or 500
InitAbort ==
    /\ mode \in {"as_completed", "gather"}
    /\ RETRIES = 1
    /\ dur = {0}
    /\ api = "answering"
    /\ cases = <<CASES[2], CASES[1]>>
    /\ inputs = "malformed"
    /\ USE_BREAKER = FALSE
    /\ MAX_CNT = MAX_CNT_SRC
    /\ disk = EmptyDisk
    /\ Start

\* one case of one input file whose rows have questions, but for a blank first
\* row in one file, with RETRIES from -1, which leaves range(RETRIES + 1)
\* empty, to 1, against an API that answers 200 or 500, times out or fails
\* in transport
InitLoop ==
    /\ mode \in {"as_completed", "gather"}
    /\ RETRIES \in (0 - 1)..1
    /\ dur = {0}
    /\ api = "failing"
    /\ cases = <<CASES[1]>>
    /\ inputs = "leading"
    /\ USE_BREAKER = FALSE
    /\ MAX_CNT = MAX_CNT_SRC
    /\ disk = EmptyDisk
    /\ Start

(* ---- main and process_case ---- *)

\* Uncaught for a main that catches the error of a case and goes on to the
\* next case
CaughtInMain(c) == [phase |-> "main", caseIdx |-> c + 1]

\* where main is after process_case raised in case c: neither process_case
\* nor main has a try around the call, asyncio.run re-raises and the script
\* ends
Uncaught(c) == [phase |-> "crashed", caseIdx |-> c]

\* main: the next case; process_case: pair_io, which raises ValueError on
\* lists of different lengths, and the new semaphore; a case of no io pair ends
\* at once
StartCase ==
    /\ phase = "main"
    /\ caseIdx <= Len(cases)
    /\ IF Mismatch(cases[caseIdx])
       THEN /\ phase' = Uncaught(caseIdx).phase
            /\ caseIdx' = Uncaught(caseIdx).caseIdx
            /\ UNCHANGED <<sem, fileIdx>>
       ELSE IF Len(pair_io(cases[caseIdx])) = 0
       THEN /\ sem' = CONCURRENCY
            /\ caseIdx' = caseIdx + 1
            /\ UNCHANGED <<phase, fileIdx>>
       ELSE /\ sem' = CONCURRENCY
            /\ fileIdx' = 1
            /\ phase' = "load"
            /\ UNCHANGED caseIdx
    /\ UNCHANGED <<otherVars, confVars, bodys, now, excel, rows, nTasks, taskVars, sinkVars, disk>>

\* main: no case left
EndMain ==
    /\ phase = "main"
    /\ caseIdx > Len(cases)
    /\ phase' = "done"
    /\ UNCHANGED <<otherVars, confVars, bodys, now, caseIdx, fileIdx, sem, excel, rows, nTasks, taskVars,
                   sinkVars, disk>>

\* AfterLoad that takes a file without rows for finished
AfterLoadSkipping(df) == IF Len(df.q) = 0 THEN "file_done" ELSE "dispatch"

\* where process_case is once df is loaded: at "for _, row in df.iterrows()",
\* or past it, at the sink loop, when df has no row
AfterLoad(df) == IF Len(df.q) = 0 THEN "sink" ELSE "dispatch"

\* load_dataframe of the next io pair, which raises ValueError when a required
\* column is missing, and the fresh per-file locals
LoadFile ==
    /\ phase = "load"
    /\ \E df \in Files[inputs] :
        /\ excel' = df
        /\ IF missing(df) # {}
           THEN /\ phase' = Uncaught(caseIdx).phase
                /\ caseIdx' = Uncaught(caseIdx).caseIdx
                /\ UNCHANGED <<rows, nTasks, taskVars, sinkVars>>
           ELSE /\ rows' = df.q
                /\ UNCHANGED caseIdx
                /\ phase' = AfterLoad(df)
                /\ nTasks' = 0
                /\ tpc' = [i \in Rows |-> "none"]
                /\ attempt' = [i \in Rows |-> 0]
                /\ resp' = [i \in Rows |-> None]
                /\ json_body' = [i \in Rows |-> None]
                /\ start' = [i \in Rows |-> 0]
                /\ posts' = [i \in Rows |-> 0]
                /\ sleeps' = [i \in Rows |-> <<>>]
                /\ result' = [i \in Rows |-> None]
                /\ doneQ' = <<>>
                /\ idx' = 0
                /\ sunk' = <<>>
                /\ success_batch' = <<>>
                /\ error_batch' = <<>>
                /\ outFile' = <<>>
                /\ errFile' = <<>>
                /\ writes' = <<>>
    /\ UNCHANGED <<otherVars, confVars, bodys, now, fileIdx, sem, disk>>

\* Break that counts the rows with a question among those given a task
BreakOnQuestions(i) ==
    /\ mode = "gather"
    /\ USE_BREAKER
    /\ Cardinality({j \in 1..(i + 1) : ~IsBlank(rows[j])}) = MAX_CNT

\* Break that tests the index of the row, not the number of tasks
BreakAtIndex(i) == mode = "gather" /\ USE_BREAKER /\ i = MAX_CNT

\* "if USE_BREAKER and (i + 1) == MAX_CNT: break" after the task of the row of
\* index i (from 0) was appended; test183.py has no such line
Break(i) == mode = "gather" /\ USE_BREAKER /\ (i + 1) = MAX_CNT

\* one iteration of "for i, row in df.iterrows(): tasks.append(process_one_row(...))"
\* and the breaker after it
CreateTask ==
    /\ phase = "dispatch"
    /\ nTasks < Len(rows)
    /\ nTasks' = nTasks + 1
    /\ tpc' = [tpc EXCEPT ![nTasks + 1] = "created"]
    /\ phase' = IF nTasks + 1 = Len(rows) \/ Break(nTasks) THEN "sink" ELSE "dispatch"
    /\ UNCHANGED <<otherVars, confVars, bodys, now, caseIdx, fileIdx, sem, excel, rows, attempt,
                   resp, json_body, start, posts, sleeps, result, doneQ, sinkVars, disk>>

(* ---- process_one_row and request_with_retry ---- *)

\* CanAcquire admitting one task too many
CanAcquireOffByOne(s) == s >= 0

\* whether "async with sem" can be entered with s free slots
CanAcquire(s) == s > 0

\* Release that gives no slot back
ReleaseNone(s) == s

\* the semaphore released on leaving "async with"
Release(s) == s + 1

\* Retry with one retry too many
RetryOffByOne(a) == a <= RETRIES

\* whether request_with_retry retries after a failed attempt a
Retry(a) == a < RETRIES

\* Return in which a failure is raised instead of returned and cancels the
\* row tasks of the file that have not finished
ReturnCancelling(i, rt) ==
    LET hit == IF rt.ok THEN {i} ELSE {j \in Rows : tpc[j] \notin {"none", "done"}}
        others == SelectSeq([k \in 1..MaxRows |-> k], LAMBDA j : j \in hit \ {i})
    IN /\ sem' = IF rt.ok THEN Release(sem) ELSE CONCURRENCY
       /\ tpc' = [j \in Rows |-> IF j \in hit THEN "done" ELSE tpc[j]]
       /\ result' = [j \in Rows |->
                        IF j = i THEN RowResult(i, rt)
                        ELSE IF j \in hit THEN BlankResult ELSE result[j]]
       /\ doneQ' = Append(doneQ, i) \o others
       /\ attempt' = [j \in Rows |-> IF j \in hit THEN 0 ELSE attempt[j]]
       /\ posts' = [j \in Rows |-> IF j \in hit THEN 0 ELSE posts[j]]
       /\ sleeps' = [j \in Rows |-> IF j \in hit THEN <<>> ELSE sleeps[j]]
       /\ json_body' = [j \in Rows |-> IF j \in hit THEN None ELSE json_body[j]]
       /\ start' = [j \in Rows |-> IF j \in hit THEN 0 ELSE start[j]]

\* the rest of process_one_row once request_with_retry has returned rt: leave
\* "async with sem", build the record, return it (there is no suspension point
\* in between); the locals of request_with_retry are gone
Return(i, rt) ==
    /\ sem' = Release(sem)
    /\ tpc' = [tpc EXCEPT ![i] = "done"]
    /\ result' = [result EXCEPT ![i] = RowResult(i, rt)]
    /\ doneQ' = Append(doneQ, i)
    /\ attempt' = [attempt EXCEPT ![i] = 0]
    /\ posts' = [posts EXCEPT ![i] = 0]
    /\ sleeps' = [sleeps EXCEPT ![i] = <<>>]
    /\ json_body' = [json_body EXCEPT ![i] = None]
    /\ start' = [start EXCEPT ![i] = 0]

\* Scheduled for tasks that run as soon as they are created
ScheduledAtCreation == phase \in {"dispatch", "sink"}

\* the coroutines of tasks are scheduled: process_case is at
\* "asyncio.as_completed(tasks)" or "await asyncio.gather(*tasks)"; a
\* coroutine object does not run before
Scheduled == phase = "sink"

\* process_one_row of a row with a blank query: "return None, None"
TaskStart(i) ==
    /\ Scheduled
    /\ tpc[i] = "created"
    /\ IsBlank(rows[i])
    /\ tpc' = [tpc EXCEPT ![i] = "done"]
    /\ result' = [result EXCEPT ![i] = BlankResult]
    /\ doneQ' = Append(doneQ, i)
    /\ UNCHANGED <<otherVars, confVars, bodys, now, phase, caseIdx, fileIdx, sem, excel, rows,
                   nTasks, attempt, resp, json_body, start, posts, sleeps, sinkVars, disk>>

\* process_one_row of a row with a non-blank query, up to its first
\* suspension inside request_with_retry: build_body, "async with sem" entered
\* (the task waits here while no slot is free), start taken and the first
\* POST sent; with an empty range(RETRIES + 1) request_with_retry falls
\* through at once and the slot is given back in the same step
Acquire(i) ==
    /\ Scheduled
    /\ tpc[i] = "created"
    /\ ~IsBlank(rows[i])
    /\ CanAcquire(sem)
    /\ LET built == build_body(bodys, rows[i])
       IN /\ bodys' = built.base_body
          /\ IF 0 \in Attempts
             THEN /\ sem' = sem - 1
                  /\ tpc' = [tpc EXCEPT ![i] = "attempt"]
                  /\ attempt' = [attempt EXCEPT ![i] = 0]
                  /\ json_body' = [json_body EXCEPT ![i] = built.body]
                  /\ start' = [start EXCEPT ![i] = now]
                  /\ UNCHANGED <<posts, sleeps, result, doneQ>>
             ELSE /\ sem' = Release(sem - 1)
                  /\ tpc' = [tpc EXCEPT ![i] = "done"]
                  /\ result' = [result EXCEPT ![i] = RowResult(i, UnknownRet)]
                  /\ doneQ' = Append(doneQ, i)
                  /\ UNCHANGED <<attempt, json_body, start, posts, sleeps>>
    /\ UNCHANGED <<otherVars, confVars, now, phase, caseIdx, fileIdx, excel, rows, nTasks, resp,
                   sinkVars, disk>>

\* Asleep with the slot given back for the time of the sleep
AsleepReleasing(s) == s + 1

\* the free slots once a task has gone to its backoff sleep: the sleep is
\* inside request_with_retry, called inside "async with sem", and gives
\* nothing back
Asleep(s) == s

\* the outcomes the API can give to the POST of attempt a of a row
Answers(a) == IF api \in DOMAIN Scripts THEN {Scripts[api][a + 1]} ELSE Apis[api]

\* one client.post of the loop, which takes d ticks, "latency =
\* time.perf_counter() - start", and the classification of the outcome
Attempt(i) ==
    /\ tpc[i] = "attempt"
    /\ \E r \in Answers(attempt[i]), d \in dur :
        /\ now' = now + d
        /\ resp' = [resp EXCEPT ![i] = r]
        /\ IF IsSuccess(r)
           THEN Return(i, OkRet(r, now' - start[i]))
           ELSE IF Retry(attempt[i])
           THEN /\ tpc' = [tpc EXCEPT ![i] = "sleeping"]
                /\ posts' = [posts EXCEPT ![i] = @ + 1]
                /\ sleeps' = [sleeps EXCEPT ![i] = Append(@, Backoff(attempt[i]))]
                /\ sem' = Asleep(sem)
                /\ UNCHANGED <<attempt, json_body, start, result, doneQ>>
           ELSE Return(i, FailRet(r))
    /\ UNCHANGED <<otherVars, confVars, bodys, phase, caseIdx, fileIdx, excel, rows, nTasks,
                   sinkVars, disk>>

\* the time asyncio.sleep(Backoff(a)) takes; in a run that does not observe
\* time (dur = {0}) the clock stands still
SleepTime(a) == IF dur = {0} THEN 0 ELSE Backoff(a) * TICKS

\* Restart that keeps the start of the first attempt
RestartOnce(s, t) == s

\* "start = time.perf_counter()" at the top of an attempt: the new start,
\* from the old one and the clock
Restart(s, t) == t

\* the arguments of the client.post of the attempt task i has in flight
Posted(i) == Request(URL, HEADERS, json_body[i])

\* asyncio.sleep returns; "continue": the next attempt of the loop, with
\* start taken anew and the POST sent with the same url, headers and
\* json_body, or, were the range exhausted, the return after the loop
Wake(i) ==
    /\ tpc[i] = "sleeping"
    /\ now' = now + SleepTime(attempt[i])
    /\ IF attempt[i] + 1 \in Attempts
       THEN /\ tpc' = [tpc EXCEPT ![i] = "attempt"]
            /\ attempt' = [attempt EXCEPT ![i] = @ + 1]
            /\ resp' = [resp EXCEPT ![i] = None]
            /\ start' = [start EXCEPT ![i] = Restart(@, now')]
            /\ UNCHANGED <<sem, json_body, posts, sleeps, result, doneQ>>
       ELSE /\ Return(i, UnknownRet)
            /\ UNCHANGED resp
    /\ UNCHANGED <<otherVars, confVars, bodys, phase, caseIdx, fileIdx, excel, rows, nTasks,
                   sinkVars, disk>>

(* ---- the sink loop of process_case ---- *)

AllDone == \A i \in 1..nTasks : tpc[i] = "done"

\* SinkReady that awaits the tasks one by one, in input order, in place of
\* gather
SinkReadyOneByOne ==
    IF mode = "as_completed" THEN Len(doneQ) > idx ELSE tpc[idx + 1] = "done"

\* whether the sink loop can take its next result
SinkReady ==
    IF mode = "as_completed" THEN Len(doneQ) > idx ELSE AllDone

\* SinkTask that takes results in completion order in both modes
SinkTaskCompletion(k) == doneQ[k]

\* SinkTask that takes the most recently finished task
SinkTaskLatest(k) == IF mode = "as_completed" THEN doneQ[Len(doneQ)] ELSE k

\* the task whose result the sink loop takes at iteration k
SinkTask(k) == IF mode = "as_completed" THEN doneQ[k] ELSE k

\* FlushDue that never fires
FlushDueNever(k) == FALSE

\* FlushDue that fires one iteration late
FlushDueLate(k) == (k % FLUSH_EVERY) = 1

\* whether iteration k of the sink loop flushes
FlushDue(k) == (k % FLUSH_EVERY) = 0

\* Cleared that empties the batch at every iteration
ClearedAlways(batch, flushed) == <<>>

\* Cleared that leaves a flushed batch as it is
ClearedNever(batch, flushed) == batch

\* a batch after the flush check: "batch.clear()" when it was written
Cleared(batch, flushed) == IF flushed THEN <<>> ELSE batch

\* Written with both batches appended to the success path
WrittenOnePath(d, sb, eb) ==
    LET d1 == IF sb # <<>> THEN [d EXCEPT ![io.out_path] = to_jsonl(@, sb)] ELSE d
    IN IF eb # <<>> THEN [d1 EXCEPT ![io.out_path] = to_jsonl(@, eb)] ELSE d1

\* the disk after "if success_batch: to_jsonl(io.out_path, success_batch)" and
\* "if error_batch: to_jsonl(io.err_path, error_batch)", in this order
Written(d, sb, eb) ==
    LET d1 == IF sb # <<>> THEN [d EXCEPT ![io.out_path] = to_jsonl(@, sb)] ELSE d
    IN IF eb # <<>> THEN [d1 EXCEPT ![io.err_path] = to_jsonl(@, eb)] ELSE d1

\* a to_jsonl call, as logged in writes
WriteEv(path, batch, k, final) ==
    [path |-> path, n |-> Len(batch), idx |-> k, final |-> final]

\* one iteration of the sink loop: append to the batches, flush when due
SinkNext ==
    /\ phase = "sink"
    /\ idx < nTasks
    /\ SinkReady
    /\ LET k  == idx + 1
           rr == result[SinkTask(k)]
           sb == IF Truthy(rr.succ) THEN Append(success_batch, rr.succ)
                 ELSE success_batch
           eb == IF Truthy(rr.err) THEN Append(error_batch, rr.err) ELSE error_batch
           fs == FlushDue(k) /\ sb # <<>>
           fe == FlushDue(k) /\ eb # <<>>
       IN /\ idx' = k
          /\ sunk' = Append(sunk, SinkTask(k))
          /\ outFile' = IF fs THEN outFile \o sb ELSE outFile
          /\ errFile' = IF fe THEN errFile \o eb ELSE errFile
          /\ disk' = IF FlushDue(k) THEN Written(disk, sb, eb) ELSE disk
          /\ success_batch' = Cleared(sb, fs)
          /\ error_batch' = Cleared(eb, fe)
          /\ writes' = writes
                \o (IF fs THEN <<WriteEv("out", sb, k, FALSE)>> ELSE <<>>)
                \o (IF fe THEN <<WriteEv("err", eb, k, FALSE)>> ELSE <<>>)
    /\ UNCHANGED <<otherVars, confVars, bodys, now, phase, caseIdx, fileIdx, sem, excel, rows, nTasks,
                   taskVars>>

\* Exhausted that ends the sink loop after the first result
ExhaustedEarly == idx >= 1 \/ nTasks = 0

\* the iterator of the sink loop is exhausted: every task's result was taken
Exhausted == idx = nTasks

\* the residual flush after the sink loop
FinalFlush ==
    /\ phase = "sink"
    /\ Exhausted
    /\ IF mode = "gather" THEN AllDone ELSE TRUE
    /\ outFile' = outFile \o success_batch
    /\ errFile' = errFile \o error_batch
    /\ disk' = Written(disk, success_batch, error_batch)
    /\ writes' = writes
          \o (IF success_batch # <<>>
              THEN <<WriteEv("out", success_batch, idx, TRUE)>> ELSE <<>>)
          \o (IF error_batch # <<>>
              THEN <<WriteEv("err", error_batch, idx, TRUE)>> ELSE <<>>)
    /\ phase' = "file_done"
    /\ UNCHANGED <<otherVars, confVars, bodys, now, caseIdx, fileIdx, sem, excel, rows, nTasks, taskVars, idx,
                   sunk, success_batch, error_batch>>

\* the disk once the io pair process_case is at is finished: the content of a
\* path that no later io pair writes to can change no more and is not kept
Closed(d) ==
    [p \in Paths |->
        IF p \in {io.out_path, io.err_path} \ LaterPaths(caseIdx, fileIdx)
        THEN <<>> ELSE d[p]]

\* the end of one io pair: the next pair, or the end of process_case
NextFile ==
    /\ phase = "file_done"
    /\ IF fileIdx < Len(pair_io(cases[caseIdx]))
       THEN /\ fileIdx' = fileIdx + 1
            /\ phase' = "load"
            /\ UNCHANGED caseIdx
       ELSE /\ caseIdx' = caseIdx + 1
            /\ phase' = "main"
            /\ UNCHANGED fileIdx
    /\ disk' = Closed(disk)
    /\ UNCHANGED <<otherVars, confVars, bodys, now, sem, excel, rows, nTasks, taskVars, sinkVars>>

Next ==
    \/ StartCase
    \/ EndMain
    \/ LoadFile
    \/ CreateTask
    \/ \E i \in Rows : TaskStart(i)
    \/ \E i \in Rows : Acquire(i)
    \/ \E i \in Rows : Attempt(i)
    \/ \E i \in Rows : Wake(i)
    \/ SinkNext
    \/ FinalFlush
    \/ NextFile

Spec == Init /\ [][Next]_vars

SpecRun == InitRun /\ [][Next]_vars

SpecFiles == InitFiles /\ [][Next]_vars

SpecRows == InitRows /\ [][Next]_vars

SpecApi == InitApi /\ [][Next]_vars

SpecLatency == InitLatency /\ [][Next]_vars

SpecAbort == InitAbort /\ [][Next]_vars

SpecLoop == InitLoop /\ [][Next]_vars

(* ---- the intent pipeline: main of intent_classify_test_code.py ---- *)

\* the column INPUT_COLUMN of the sheet
INPUT_COLUMN == "question"

\* the sheets pd.read_excel can give: up to MaxRows cells with a query or
\* with whitespace, a sheet with a missing cell first, a sheet without the
\* column
Sheets ==
    {Frame({INPUT_COLUMN}, q) : q \in SeqsUpTo({<<"q">>, <<" ">>}, MaxRows)}
       \cup {Frame({INPUT_COLUMN}, <<NaN, <<"q">>>>), Frame({"other"}, <<<<"q">>>>)}

\* fillna("")
fillna(q) == IF q = NaN THEN <<>> ELSE q

\* "[q for q in df[INPUT_COLUMN].fillna('').tolist() if q.strip()]"
Queries(df) ==
    SelectSeq([k \in 1..Len(df.q) |-> fillna(df.q[k])], LAMBDA q : Strip(q) # <<>>)

\* the intent pipeline starts, the batch runner does not run
InitIntent ==
    /\ mode = "gather"
    /\ RETRIES = 0
    /\ dur = {0}
    /\ api = "answering"
    /\ cases = <<>>
    /\ inputs = "plain"
    /\ USE_BREAKER = FALSE
    /\ MAX_CNT = MAX_CNT_SRC
    /\ disk = EmptyDisk
    /\ RunnerStart
    /\ WorkerOff
    /\ queries = <<>>
    /\ ipc = "start"
    /\ qi = 0
    /\ rp_attempt = 0
    /\ last_exc = "None"
    /\ llm_resp = PyNone
    /\ expand_call = PyNone
    /\ query_complete = PyNone
    /\ intent_call = PyNone
    /\ results_ok = <<>>
    /\ results_failed = <<>>
    /\ jsonl = [p \in {"results.jsonl", "failed.jsonl"} |-> NoFile]

runnerVars == <<confVars, bodys, now, phase, caseIdx, fileIdx, sem, excel, rows, nTasks,
                taskVars, sinkVars, disk>>

\* main up to the loop: the sheet read, KeyError when the column is missing,
\* the queries filtered, the return when there is none
ReadQueries ==
    /\ ipc = "start"
    /\ \E df \in Sheets :
          IF INPUT_COLUMN \notin df.columns
          THEN /\ ipc' = "crashed"
               /\ UNCHANGED <<queries, qi>>
          ELSE /\ queries' = Queries(df)
               /\ IF Queries(df) = <<>>
                  THEN ipc' = "done" /\ UNCHANGED qi
                  ELSE ipc' = "expand" /\ qi' = 1
    /\ UNCHANGED <<rp_attempt, last_exc, llm_resp, expand_call, query_complete, intent_call,
                   results_ok, results_failed, jsonl, runnerVars, workerVars>>

\* the record appended to results_failed for query i: its stage and reason
\* and the result of the call that failed (the other fields are left out)
FailedRec(i, stage, reason, call) ==
    [query |-> i, stage |-> stage, reason |-> reason, result |-> call]

\* the record appended to results_ok for query i (the requests and results
\* are left out)
OkRec(i, qc, parsed_intent) ==
    [query |-> i, query_complete |-> qc, parsed_intent |-> parsed_intent]

\* "continue", or the end of the loop body: the next query, or the end of
\* the loop
NextQuery ==
    IF qi < Len(queries)
    THEN qi' = qi + 1 /\ ipc' = "expand"
    ELSE ipc' = "save" /\ UNCHANGED qi

\* main once robust_post has returned call: the call kept in its local, the
\* checks, and the failure recorded, the exception raised, the second stage
\* entered or the success recorded
Continue(call) ==
    LET v == Judge(ipc, call)
    IN /\ rp_attempt' = 0
       /\ last_exc' = "None"
       /\ IF ipc = "expand"
          THEN expand_call' = call /\ UNCHANGED intent_call
          ELSE intent_call' = call /\ UNCHANGED expand_call
       /\ IF v.kind = "raised"
          THEN /\ ipc' = "crashed"
               /\ UNCHANGED <<qi, query_complete, results_ok, results_failed>>
          ELSE IF v.kind = "failed"
          THEN /\ results_failed' = Append(results_failed, FailedRec(qi, v.stage, v.reason, call))
               /\ NextQuery
               /\ UNCHANGED <<query_complete, results_ok>>
          ELSE IF ipc = "expand"
          THEN /\ query_complete' = v.value
               /\ ipc' = "intent"
               /\ UNCHANGED <<qi, results_ok, results_failed>>
          ELSE /\ results_ok' = Append(results_ok, OkRec(qi, query_complete, v.value))
               /\ NextQuery
               /\ UNCHANGED <<query_complete, results_failed>>

\* one iteration of the loop of robust_post: post_json, which returns or
\* raises; on an exception the next iteration after a sleep, or the return
\* after the loop; on a return, main goes on to its next call of robust_post
PostJson ==
    /\ ipc \in {"expand", "intent"}
    /\ Again(rp_attempt)
    /\ \E r \in LlmApi :
          /\ llm_resp' = r
          /\ IF r.kind = "raise"
             THEN IF Again(rp_attempt + 1)
                  THEN /\ rp_attempt' = rp_attempt + 1
                       /\ last_exc' = r.exc
                       /\ UNCHANGED <<ipc, qi, expand_call, query_complete, intent_call,
                                      results_ok, results_failed>>
                  ELSE Continue(GaveUp(r.exc))
             ELSE Continue(Answered(post_json(r)))
    /\ UNCHANGED <<queries, jsonl, runnerVars, workerVars>>

\* the end of main: each list written to its file when it is not empty
Save ==
    /\ ipc = "save"
    /\ jsonl' = [p \in DOMAIN jsonl |->
                    IF p = "results.jsonl" /\ results_ok # <<>>
                    THEN write_jsonl(jsonl[p], results_ok)
                    ELSE IF p = "failed.jsonl" /\ results_failed # <<>>
                    THEN write_jsonl(jsonl[p], results_failed)
                    ELSE jsonl[p]]
    /\ ipc' = "done"
    /\ UNCHANGED <<queries, qi, rp_attempt, last_exc, llm_resp, expand_call, query_complete,
                   intent_call, results_ok, results_failed, runnerVars, workerVars>>

NextIntent ==
    \/ ReadQueries
    \/ PostJson
    \/ Save

SpecIntent == InitIntent /\ [][NextIntent]_vars

(* ---- the worker: poll_task and handle_task of worker_251113.py ---- *)

runVars == <<runnerVars, pipeVars>>

\* the worker starts with an empty queue, poll_task and every handle_task at
\* the top of their loops; the batch runner and the pipeline do not run
InitWorker ==
    /\ mode = "gather"
    /\ RETRIES = 0
    /\ dur = {0}
    /\ api = "answering"
    /\ cases = <<>>
    /\ inputs = "plain"
    /\ USE_BREAKER = FALSE
    /\ MAX_CNT = MAX_CNT_SRC
    /\ disk = EmptyDisk
    /\ RunnerStart
    /\ PipelineOff
    /\ TASK_QUEUE_SIZE \in 0..MaxQueue
    /\ queue = <<>>
    /\ ppc = "get_task"
    /\ fetched_task = NoTask
    /\ fetched = <<>>
    /\ wpc = [w \in Workers |-> "get"]
    /\ task_info = [w \in Workers |-> NoTask]
    /\ task_status = [w \in Workers |-> "None"]
    /\ raised = [w \in Workers |-> NoExc]
    /\ received = <<>>
    /\ updates = [id \in TaskIds |-> <<>>]
    /\ task_dones = [id \in TaskIds |-> 0]
    /\ error_messages = [id \in TaskIds |-> 0]

handleVars == <<wpc, task_info, task_status, raised, received, updates, task_dones,
                error_messages>>

\* poll_task: "fetched_task = await task_client.get_task()", which gives a
\* task, gives None or raises; a task goes on to queue.put, anything else to
\* the sleep
GetTask ==
    /\ ppc = "get_task"
    /\ \/ /\ Len(fetched) < MaxTasks
          /\ \E kind \in TaskKinds :
                /\ fetched_task' = Task(Len(fetched) + 1, kind)
                /\ fetched' = Append(fetched, fetched_task')
          /\ ppc' = "put"
       \/ /\ fetched_task' = NoTask
          /\ ppc' = "sleep"
          /\ UNCHANGED fetched
       \/ /\ ppc' = "sleep"
          /\ UNCHANGED <<fetched_task, fetched>>
    /\ UNCHANGED <<TASK_QUEUE_SIZE, queue, handleVars, runVars>>

\* poll_task: "await queue.put(fetched_task)" returns once the queue has room
\* (the log line that follows changes nothing, raising or not)
QueuePut ==
    /\ ppc = "put"
    /\ ~Full(queue, TASK_QUEUE_SIZE)
    /\ queue' = Append(queue, fetched_task)
    /\ ppc' = "sleep"
    /\ UNCHANGED <<TASK_QUEUE_SIZE, fetched_task, fetched, handleVars, runVars>>

\* poll_task: "await asyncio.sleep(interval)" and the next iteration
Sleep ==
    /\ ppc = "sleep"
    /\ ppc' = "get_task"
    /\ UNCHANGED <<TASK_QUEUE_SIZE, queue, fetched_task, fetched, handleVars, runVars>>

pollVars == <<TASK_QUEUE_SIZE, ppc, fetched_task, fetched>>

\* handle_task: "task_info = await queue.get()" returns the oldest item
QueueGet(w) ==
    /\ wpc[w] = "get"
    /\ queue # <<>>
    /\ task_info' = [task_info EXCEPT ![w] = Head(queue)]
    /\ queue' = Tail(queue)
    /\ received' = Append(received, Head(queue).id)
    /\ wpc' = [wpc EXCEPT ![w] = "received"]
    /\ UNCHANGED <<pollVars, task_status, raised, updates, task_dones, error_messages,
                   runVars>>

\* an exception leaves handle_task: the coroutine has ended
Ended(w, e) ==
    /\ wpc' = [wpc EXCEPT ![w] = "ended"]
    /\ raised' = [raised EXCEPT ![w] = e]

\* handle_task from the log line after queue.get to the "try": the fields
\* of the task are read, status is "success", and the step "01." is logged
\* by write_log and write_admin_log; an exception of these lines is caught
\* nowhere
Receive(w) ==
    /\ wpc[w] = "received"
    /\ IF Fields(task_info[w]) # "ok"
       THEN /\ Ended(w, Fields(task_info[w]))
            /\ UNCHANGED task_status
       ELSE \E o \in Awaited :
               IF o = "raises"
               THEN /\ Ended(w, "write_log")
                    /\ task_status' = [task_status EXCEPT ![w] = "success"]
               ELSE /\ wpc' = [wpc EXCEPT ![w] = "try"]
                    /\ task_status' = [task_status EXCEPT ![w] = "success"]
                    /\ UNCHANGED raised
    /\ UNCHANGED <<pollVars, queue, task_info, received, updates, task_dones,
                   error_messages, runVars>>

\* handle_task, the try block: a text message goes through STEPS until one of
\* them raises, which skips the rest and enters the except clause; a file
\* upload has no step
TryBlock(w) ==
    /\ wpc[w] = "try"
    /\ IF task_info[w].kind = "text"
       THEN \E k \in 1..(Len(STEPS) + 1) :
               IF k <= Len(STEPS)
               THEN /\ wpc' = [wpc EXCEPT ![w] = "except"]
                    /\ raised' = [raised EXCEPT ![w] = STEPS[k]]
               ELSE /\ wpc' = [wpc EXCEPT ![w] = "finally"]
                    /\ UNCHANGED raised
       ELSE /\ wpc' = [wpc EXCEPT ![w] = "finally"]
            /\ UNCHANGED raised
    /\ UNCHANGED <<pollVars, queue, task_info, task_status, received, updates, task_dones,
                   error_messages, runVars>>

\* handle_task, the except clause: status is "failed" and
\* send_error_message is awaited; when it raises, its exception is pending
\* while the finally clause runs
Except(w) ==
    /\ wpc[w] = "except"
    /\ task_status' = [task_status EXCEPT ![w] = "failed"]
    /\ error_messages' = [error_messages EXCEPT ![task_info[w].id] = @ + 1]
    /\ \E o \in Awaited :
          raised' = [raised EXCEPT ![w] = IF o = "raises" THEN "send_error_message" ELSE NoExc]
    /\ wpc' = [wpc EXCEPT ![w] = "finally"]
    /\ UNCHANGED <<pollVars, queue, task_info, received, updates, task_dones, runVars>>

\* handle_task, the finally clause: update_task is awaited and, when it
\* returned, queue.task_done() is called; a pending exception or one of
\* update_task then leaves handle_task, otherwise the loop goes on
Finally(w) ==
    /\ wpc[w] = "finally"
    /\ updates' = [updates EXCEPT ![task_info[w].id] = Append(@, task_status[w])]
    /\ \E o \in Awaited :
          IF o = "raises"
          THEN /\ Ended(w, "update_task")
               /\ UNCHANGED task_dones
          ELSE /\ task_dones' = [task_dones EXCEPT ![task_info[w].id] = @ + 1]
               /\ IF raised[w] # NoExc
                  THEN Ended(w, raised[w])
                  ELSE wpc' = [wpc EXCEPT ![w] = "get"] /\ UNCHANGED raised
    /\ UNCHANGED <<pollVars, queue, task_info, task_status, received, error_messages,
                   runVars>>

NextWorker ==
    \/ GetTask
    \/ QueuePut
    \/ Sleep
    \/ \E w \in Workers : QueueGet(w)
    \/ \E w \in Workers : Receive(w)
    \/ \E w \in Workers : TryBlock(w)
    \/ \E w \in Workers : Except(w)
    \/ \E w \in Workers : Finally(w)

SpecWorker == InitWorker /\ [][NextWorker]_vars

\* the event loop of asyncio.run runs whatever is ready: main, a row task
\* whose POST has returned or failed (httpx ends every attempt within
\* TIMEOUT_SEC), whose sleep is over or for which a slot is free
Fairness == WF_vars(Next)

SpecLive == InitLive /\ [][Next]_vars /\ Fairness

(***************************************************************************)
(* Properties                                                              *)
(***************************************************************************)

\* row i of the current file has a non-blank query
HasQuery(i) == ~IsBlank(rows[i])

\* the rows of the current file whose query is non-blank
NonBlank == {i \in 1..Len(rows) : HasQuery(i)}

\* the number of lines of stream f that come from row i
Count(f, i) == Cardinality({k \in 1..Len(f) : f[k].row = i})

\* the tasks inside "async with sem"
InFlight == {i \in Rows : tpc[i] \in {"attempt", "sleeping"}}

\* the to_jsonl calls made for path p, as their sizes
RECURSIVE Sizes(_, _)
Sizes(ws, p) ==
    IF ws = <<>> THEN <<>>
    ELSE IF Head(ws).path = p THEN <<Head(ws).n>> \o Sizes(Tail(ws), p)
    ELSE Sizes(Tail(ws), p)

\* C1: when a file has been processed to completion, every non-blank row has
\* exactly one line, in exactly one of the two streams, a blank row has none,
\* and the two streams together hold as many lines as there are non-blank rows
C1_ExactlyOneRecord ==
    phase = "file_done" =>
        /\ \A i \in 1..Len(rows) :
              Count(outFile, i) + Count(errFile, i) = IF HasQuery(i) THEN 1 ELSE 0
        /\ Len(outFile) + Len(errFile) = Cardinality(NonBlank)
        /\ \A k \in 1..Len(outFile) : DOMAIN outFile[k] = {"row", "results", "latency"}
        /\ \A k \in 1..Len(errFile) : DOMAIN errFile[k] = {"row", "error"}

\* a completed file with a success, a failure without status code and a blank
\* row, sunk out of input order
C1_Witness ==
    /\ phase = "file_done"
    /\ Len(rows) = MaxRows
    /\ outFile # <<>>
    /\ \E k \in 1..Len(errFile) : errFile[k].error.status = NoStatus
    /\ \E i \in 1..Len(rows) : ~HasQuery(i)
    /\ sunk[1] # 1

\* C2: at most CONCURRENCY row tasks are inside "async with sem" at any time
C2_GateBound == Cardinality(InFlight) <= CONCURRENCY

\* the gate is full while another non-blank row waits for a slot
C2_Witness ==
    /\ Cardinality(InFlight) = CONCURRENCY
    /\ \E i \in 1..nTasks : tpc[i] = "created" /\ HasQuery(i)

\* C3: once a case has made its semaphore, free slots plus tasks holding a
\* slot equal CONCURRENCY; every file starts loading and dispatching, and
\* ends, with CONCURRENCY free slots
C3_SlotsConserved ==
    /\ (phase # "main" => sem + Cardinality(InFlight) = CONCURRENCY)
    /\ (phase \in {"load", "dispatch", "file_done"} => sem = CONCURRENCY)
    /\ (phase = "sink" /\ AllDone => sem = CONCURRENCY)

\* the second file of the second case has completed with successes and
\* failures, and the gate is at full capacity
C3_Witness ==
    /\ phase = "file_done"
    /\ caseIdx = 2
    /\ fileIdx = 2
    /\ outFile # <<>>
    /\ errFile # <<>>
    /\ sem = CONCURRENCY

\* an outcome of client.post that is a response with a status in [200,300)
Is2xx(r) == r # None /\ r.kind = "response" /\ r.status \in 200..299

\* task i ends in this step
Ends(i) == tpc[i] # "done" /\ tpc'[i] = "done"

\* the client.post calls task i has made when it ends in this step
PostsAtEnd(i) == posts[i] + (IF tpc[i] = "attempt" THEN 1 ELSE 0)

\* C4: request_with_retry makes at most RETRIES+1 POSTs for one row, one per
\* attempt index; it returns a failure only when RETRIES+1 POSTs have been
\* made, all of which failed; with RETRIES = 0 it makes exactly one POST
C4_AttemptBudget ==
    /\ [](\A i \in Rows :
            /\ posts[i] <= RETRIES + 1
            /\ (tpc[i] = "attempt" => posts[i] = attempt[i] /\ attempt[i] <= RETRIES)
            /\ (tpc[i] = "sleeping" =>
                    /\ posts[i] = attempt[i] + 1
                    /\ posts[i] <= RETRIES
                    /\ ~Is2xx(resp[i])))
    /\ [][\A i \in Rows :
            /\ posts'[i] > posts[i] => posts'[i] = posts[i] + 1 /\ tpc[i] = "attempt"
            /\ (Ends(i) /\ HasQuery(i)) =>
                  /\ PostsAtEnd(i) <= RETRIES + 1
                  /\ (result'[i].err # None => PostsAtEnd(i) = RETRIES + 1)
                  /\ (RETRIES = 0 => PostsAtEnd(i) = 1)]_vars

\* a row has ended in a failure of its last POST with RETRIES at the source's
\* value
C4_Witness ==
    /\ RETRIES = MaxRetries
    /\ \E i \in Rows :
          /\ tpc[i] = "done"
          /\ HasQuery(i)
          /\ result[i].err # None
          /\ resp[i] # None
          /\ ~Is2xx(resp[i])

\* the sleeps the schedule prescribes after n failed attempts
Schedule(n) == [k \in 1..n |-> BACKOFF_BASE * Pow2(k - 1)]

\* C5: the k-th failed attempt (k = 0, 1, ...) that is followed by another
\* attempt is followed by exactly one sleep, of BACKOFF_BASE * 2^k, whatever the
\* kind of failure; no sleep precedes attempt 0, follows a success or follows
\* the last failed attempt; a 2xx response after earlier failures gives a
\* success record and no error record
C5_BackoffSchedule ==
    /\ [](\A i \in Rows :
            /\ sleeps[i] = Schedule(posts[i])
            /\ (tpc[i] = "attempt" => Len(sleeps[i]) = attempt[i])
            /\ (tpc[i] = "sleeping" => Len(sleeps[i]) = attempt[i] + 1))
    /\ [][\A i \in Rows :
            /\ sleeps'[i] # sleeps[i] /\ sleeps'[i] # <<>> =>
                  /\ tpc[i] = "attempt"
                  /\ tpc'[i] = "sleeping"
                  /\ ~Is2xx(resp'[i])
                  /\ attempt[i] < RETRIES
                  /\ sleeps'[i] = Append(sleeps[i], BACKOFF_BASE * Pow2(attempt[i]))
            /\ (tpc[i] = "attempt" /\ tpc'[i] # "attempt" /\ tpc'[i] # "sleeping") =>
                  /\ Is2xx(resp'[i]) \/ attempt[i] = RETRIES
                  /\ Ends(i)
                  /\ (Is2xx(resp'[i]) =>
                         result'[i].succ # None /\ result'[i].err = None)]_vars

\* RETRIES = 2, attempts 0 and 1 answered HTTP 500: the row has slept
\* BACKOFF_BASE*1 and is in its sleep of BACKOFF_BASE*2
C5_Witness ==
    /\ RETRIES = 2
    /\ \E i \in Rows :
          /\ tpc[i] = "sleeping"
          /\ attempt[i] = 1
          /\ resp[i].kind = "response"
          /\ resp[i].status = 500
          /\ sleeps[i] = <<BACKOFF_BASE, BACKOFF_BASE * 2>>

\* C6: a row whose last POST got a status in [200,300) has ended with a success
\* record; from then on it makes no POST and no sleep
C6_SuccessNeverRetries ==
    /\ [](\A i \in Rows :
            Is2xx(resp[i]) =>
                /\ tpc[i] = "done"
                /\ result[i].succ # None
                /\ result[i].err = None)
    /\ [][\A i \in Rows :
            Is2xx(resp[i]) =>
                /\ tpc'[i] \in {"done", "none"}
                /\ posts'[i] = 0
                /\ sleeps'[i] = <<>>
                /\ (resp'[i] = resp[i] \/ phase' # phase)]_vars

\* with retries left (RETRIES = 2), a row ended on a 2xx response with a
\* non-JSON body while another row is still retrying
C6_Witness ==
    /\ RETRIES = MaxRetries
    /\ \E i \in Rows :
          /\ Is2xx(resp[i])
          /\ ~resp[i].json
          /\ result[i].succ # None
    /\ \E j \in Rows : tpc[j] = "sleeping"

\* the lines of f are in input-row order
Increasing(f) == \A a, b \in 1..Len(f) : a < b => f[a].row < f[b].row

\* C7: with asyncio.gather, whatever the order in which the requests of a file
\* complete, the lines of each stream, those written and those still batched
\* in the sink loop, are in input-row order
C7_InputOrder ==
    mode = "gather" =>
        /\ Increasing(outFile)
        /\ Increasing(errFile)
        /\ (phase = "sink" =>
               /\ Increasing(outFile \o success_batch)
               /\ Increasing(errFile \o error_batch))

\* a gather file whose last row finished first and whose first row finished
\* last, all rows written to the success stream
C7_Witness ==
    /\ mode = "gather"
    /\ phase = "file_done"
    /\ Len(outFile) = MaxRows
    /\ doneQ[1] = MaxRows
    /\ doneQ[MaxRows] = 1

\* C8: with asyncio.as_completed the sink loop takes the results in the order
\* the tasks finished, and when the file is complete it has taken the outcome
\* of every non-blank row
C8_CompletionOrder ==
    mode = "as_completed" =>
        /\ Len(sunk) = idx
        /\ idx <= Len(doneQ)
        /\ sunk = SubSeq(doneQ, 1, idx)
        /\ (phase = "file_done" =>
               \A i \in NonBlank :
                  /\ \E k \in 1..Len(sunk) : sunk[k] = i
                  /\ (result[i].succ # None \/ result[i].err # None))

\* an as_completed file of non-blank rows whose last created task was sunk
\* first
C8_Witness ==
    /\ mode = "as_completed"
    /\ phase = "file_done"
    /\ Cardinality(NonBlank) = MaxRows
    /\ sunk[1] = MaxRows
    /\ sunk[MaxRows] = 1

\* the outcomes (successes and failures) the sink loop has processed
Outcomes == Len(outFile) + Len(errFile) + Len(success_batch) + Len(error_batch)

\* a mid-stream flush was made at the current iteration of the sink loop
JustFlushed == \E k \in 1..Len(writes) : ~writes[k].final /\ writes[k].idx = idx

\* the records of one kind among the results of the tasks ts, in order
RECURSIVE Records(_, _)
Records(ts, field) ==
    IF ts = <<>> THEN <<>>
    ELSE (IF result[Head(ts)][field] # None THEN <<result[Head(ts)][field]>> ELSE <<>>)
         \o Records(Tail(ts), field)

\* the last iteration of the sink loop at which a flush was due
LastDue == idx - (idx % FLUSH_EVERY)

Chunks(n) ==
    [k \in 1..((n + FLUSH_EVERY - 1) \div FLUSH_EVERY) |->
        IF k * FLUSH_EVERY <= n THEN FLUSH_EVERY ELSE n % FLUSH_EVERY]

\* every non-blank row of the current file ended in a success
AllSucceeded == \A i \in NonBlank : result[i].succ # None

NoRepeat(ts) == \A a, b \in 1..Len(ts) : ts[a] = ts[b] => a = b

\* the sum of the sizes in ns
RECURSIVE Sum(_)
Sum(ns) == IF ns = <<>> THEN 0 ELSE Head(ns) + Sum(Tail(ns))

\* C11: while the sink loop runs, the records taken so far are each either in
\* the file or in the batch, once; when the file's processing completes, the
\* result of every task has been taken once, and each stream on disk holds
\* exactly the records appended to its batch, each once, the to_jsonl calls
\* adding up to them
C11_WrittenOnce ==
    /\ NoRepeat(sunk)
    /\ (phase = "sink" =>
           /\ outFile \o success_batch = Records(sunk, "succ")
           /\ errFile \o error_batch = Records(sunk, "err"))
    /\ (phase = "file_done" =>
           /\ Len(sunk) = nTasks
           /\ outFile = Records(sunk, "succ")
           /\ errFile = Records(sunk, "err")
           /\ disk[io.out_path] = outFile
           /\ disk[io.err_path] = errFile
           /\ Sum(Sizes(writes, "out")) = Len(outFile)
           /\ Sum(Sizes(writes, "err")) = Len(errFile)
           /\ \A i \in 1..Len(rows) : Count(outFile, i) + Count(errFile, i) <= 1)

\* a completed file whose success stream was written by a mid-stream flush and
\* by the final flush, and whose error stream was written too
C11_Witness ==
    /\ phase = "file_done"
    /\ \E k \in 1..Len(writes) : writes[k].path = "out" /\ ~writes[k].final
    /\ \E k \in 1..Len(writes) : writes[k].path = "out" /\ writes[k].final
    /\ disk[io.err_path] # <<>>

\* C12: the success batch and the error batch each hold at most FLUSH_EVERY
\* records in every state, and held at most FLUSH_EVERY when they were flushed
C12_BatchBound ==
    /\ Len(success_batch) <= FLUSH_EVERY
    /\ Len(error_batch) <= FLUSH_EVERY
    /\ \A k \in 1..Len(writes) : writes[k].n <= FLUSH_EVERY

\* a file of more than FLUSH_EVERY rows: a batch was flushed holding
\* FLUSH_EVERY records and the sink loop has batched records again since
C12_Witness ==
    /\ phase = "sink"
    /\ Len(rows) > FLUSH_EVERY
    /\ \E k \in 1..Len(writes) : writes[k].n = FLUSH_EVERY
    /\ Len(success_batch) + Len(error_batch) > 0

\* s is a prefix of t
IsPrefix(s, t) == Len(s) <= Len(t) /\ SubSeq(t, 1, Len(s)) = s

\* the output paths that the io pair process_case is at, or a later one,
\* writes to
LivePaths ==
    LaterPaths(caseIdx, fileIdx)
        \cup (IF phase \in {"load", "dispatch", "sink", "file_done"}
              THEN {io.out_path, io.err_path} ELSE {})

\* C13: the content of every output path that is still written to is, at any
\* time, a prefix of its content after the next step, lines from before the
\* run and lines of earlier files and cases included; while a file is
\* processed the lines it appended are the end of its success path
C13_AppendOnly ==
    /\ [][\A p \in LivePaths' : IsPrefix(disk[p], disk'[p])]_vars
    /\ [](phase \in {"sink", "file_done"} /\ io.out_path # io.err_path =>
            /\ Len(outFile) <= Len(disk[io.out_path])
            /\ outFile = SubSeq(disk[io.out_path],
                                Len(disk[io.out_path]) - Len(outFile) + 1,
                                Len(disk[io.out_path])))

\* the second file of a case has appended to a success path that held a line
\* from before the run and lines of the case's first file
C13_Witness ==
    /\ phase = "file_done"
    /\ fileIdx = 2
    /\ cases[caseIdx] = SharedConf
    /\ outFile # <<>>
    /\ disk[io.out_path][1] = OldLine
    /\ Len(disk[io.out_path]) > 1 + Len(outFile)

\* the three lists of a conf are not all of the same length
LengthsDiffer(conf) ==
    Cardinality({Len(conf.input_files), Len(conf.output_files), Len(conf.err_files)}) > 1

\* process_case is entered in this step
EntersCase == phase = "main" /\ caseIdx <= Len(cases) /\ vars' # vars

\* C14: when process_case is entered for a case whose three lists are not all
\* of the same length, it ends in an error and nothing else changes: no
\* semaphore is made, no file loaded, no task created, no request issued, no
\* line written; the run does nothing after the error; a case whose lists
\* match does not end in this error
C14_MismatchAborts ==
    /\ [][(EntersCase /\ LengthsDiffer(cases[caseIdx])) =>
            /\ phase' = "crashed"
            /\ UNCHANGED <<otherVars, confVars, bodys, now, caseIdx, fileIdx, sem, excel, rows, nTasks,
                           taskVars, sinkVars, disk>>]_vars
    /\ [][(EntersCase /\ ~LengthsDiffer(cases[caseIdx])) => phase' # "crashed"]_vars
    /\ [][phase # "crashed"]_vars

\* the second case of a run ended in the error, its error list being shorter
\* than its two other lists, after the first case had written records
C14_Witness ==
    /\ phase = "crashed"
    /\ caseIdx = 2
    /\ Len(cases[2].input_files) = Len(cases[2].output_files)
    /\ Len(cases[2].err_files) < Len(cases[2].output_files)
    /\ outFile # <<>>
    /\ fileIdx = 1

\* load_dataframe is called in this step
LoadsFile == phase = "load" /\ vars' # vars

\* C15: when the DataFrame read for an input file lacks a required column,
\* loading ends in an error and nothing else changes: no task is created, no
\* request issued and no line written for that file, and the run does nothing
\* after the error, so no later file is loaded; a file with every required
\* column goes on to dispatching, and only such a file is ever dispatched
C15_MissingColumnAborts ==
    /\ [][(LoadsFile /\ ~(Required \subseteq excel'.columns)) =>
            /\ phase' = "crashed"
            /\ UNCHANGED <<otherVars, confVars, bodys, now, caseIdx, fileIdx, sem, rows, nTasks, taskVars,
                           sinkVars, disk>>]_vars
    /\ [][(LoadsFile /\ Required \subseteq excel'.columns) =>
            /\ phase' \in {"dispatch", "sink"}
            /\ rows' = excel'.q
            /\ nTasks' = 0]_vars
    /\ [][phase = "crashed" => phase' = "crashed" /\ excel' = excel /\ disk' = disk]_vars
    /\ [](phase \in {"dispatch", "sink", "file_done"} => Required \subseteq excel.columns)

\* the second file of a case lacks a required column other than the query
\* column: the run ended there, after the first file had written records
C15_Witness ==
    /\ phase = "crashed"
    /\ caseIdx = 1
    /\ fileIdx = 2
    /\ "question" \in excel.columns
    /\ ~(Required \subseteq excel.columns)
    /\ outFile # <<>>
    /\ nTasks = Len(rows)

\* C18: with every POST and every sleep ending, every row task that was
\* created finishes, so none waits for a slot for ever, and a task of a
\* non-blank row finishes in a success or in a failure; every file that is
\* loaded is processed to its end, and main comes to its end
C18_Termination ==
    /\ \A i \in Rows : (tpc[i] = "created") ~> (tpc[i] = "done")
    /\ \A i \in Rows : (tpc[i] \in {"attempt", "sleeping"}) ~> (tpc[i] = "done")
    /\ [](\A i \in 1..nTasks :
            (tpc[i] = "done" /\ HasQuery(i)) =>
                (result[i].succ # None) # (result[i].err # None))
    /\ \A f \in 1..Len(CASES[2].input_files) :
          (phase = "load" /\ fileIdx = f) ~> (phase = "file_done" /\ fileIdx = f)
    /\ <>(phase = "done")

\* main has come to its end; the last file had more rows with a question than
\* the gate has slots, and one of them ended in a failure
C18_Witness ==
    /\ phase = "done"
    /\ fileIdx = Len(CASES[2].input_files)
    /\ Cardinality(NonBlank) > CONCURRENCY
    /\ \A i \in NonBlank : tpc[i] = "done"
    /\ \E i \in NonBlank : result[i].err # None

\* task i takes a step of its own
Steps(i) == tpc'[i] # tpc[i] /\ phase = "sink" /\ phase' = "sink"

\* the lines of stream f that come from row i
LinesOf(f, i) == {k \in 1..Len(f) : f[k].row = i}

\* C16: a POST that fails, by its status, by a timeout or by a transport
\* fault, changes nothing but its own row task, which goes on to a retry or
\* ends in an error record, and the run goes on: the state of the other row
\* tasks and their results are untouched; when the file is complete every
\* non-blank row has finished with a record of its own, a failed row's being
\* in the error stream once and in the success stream not at all; and
\* whatever has failed, the run is never stuck before the end of main
C16_FailuresContained ==
    /\ [](phase # "crashed")
    /\ [][\A i \in Rows :
            Steps(i) =>
                /\ \A j \in Rows \ {i} :
                      /\ tpc'[j] = tpc[j]
                      /\ result'[j] = result[j]
                      /\ attempt'[j] = attempt[j]
                      /\ resp'[j] = resp[j]
                /\ (tpc[i] = "attempt" /\ ~Is2xx(resp'[i])) =>
                      \/ tpc'[i] = "sleeping"
                      \/ tpc'[i] = "done" /\ result'[i].err # None
                                         /\ result'[i].succ = None]_vars
    /\ [](phase = "file_done" =>
            \A i \in NonBlank :
               /\ tpc[i] = "done"
               /\ (result[i].err # None =>
                      /\ Cardinality(LinesOf(errFile, i)) = 1
                      /\ \A k \in LinesOf(errFile, i) : errFile[k] = result[i].err
                      /\ LinesOf(outFile, i) = {})
               /\ (result[i].err = None => Cardinality(LinesOf(outFile, i)) = 1))
    /\ [](phase # "done" => ENABLED <<Next>>_vars)

\* the second file of the case is complete, with a row that ended in a read
\* timeout, a row that ended in a transport fault and a row that succeeded
C16_Witness ==
    /\ phase = "file_done"
    /\ fileIdx = 2
    /\ \E k \in 1..Len(errFile) : errFile[k].error.message = <<"timeout">>
    /\ \E k \in 1..Len(errFile) : errFile[k].error.message = <<"exception", "Exception">>
    /\ outFile # <<>>

\* every record the sink loop has taken is in its file
Flushed ==
    /\ Len(sunk) = nTasks
    /\ outFile = Records(sunk, "succ")
    /\ errFile = Records(sunk, "err")

\* C17: outside the dispatching and draining of one file no row task is
\* unfinished, no slot is taken and no record is unwritten; no request is
\* issued while the tasks of a file are being created; process_case moves to
\* the next io pair, and main to the next case, only from a file whose tasks
\* have all finished and whose records are all written, one pair and one case
\* at a time, in order
C17_Sequential ==
    /\ [](phase \notin {"dispatch", "sink"} =>
            /\ \A i \in Rows : tpc[i] \in {"none", "done"}
            /\ sem \in {0 - 1, CONCURRENCY}
            /\ Flushed)
    /\ [](phase = "dispatch" => \A i \in Rows : tpc[i] \in {"none", "created"})
    /\ [][(phase' = "load" /\ phase # "load") =>
            /\ \A i \in 1..nTasks : tpc[i] = "done"
            /\ Flushed
            /\ sem' = CONCURRENCY
            /\ caseIdx' = caseIdx
            /\ \/ phase = "file_done" /\ fileIdx' = fileIdx + 1
               \/ phase = "main" /\ fileIdx' = 1]_vars
    /\ [][caseIdx' # caseIdx =>
            /\ caseIdx' = caseIdx + 1
            /\ phase = "file_done"
            /\ fileIdx = Len(pair_io(cases[caseIdx]))]_vars
    /\ [][fileIdx' # fileIdx => phase' = "load"]_vars

\* the second file of the second case is being drained, with a task in
\* flight, after the files before it were written
C17_Witness ==
    /\ phase = "sink"
    /\ caseIdx = 2
    /\ fileIdx = 2
    /\ InFlight # {}
    /\ success_batch # <<>>

\* the query cell q is missing, empty or made of whitespace only
BlankCell(q) == q = NaN \/ \A k \in 1..Len(q) : q[k] = " "

\* the rows of the current file whose query cell is missing, empty or
\* whitespace only
BlankRows == {i \in 1..Len(rows) : BlankCell(rows[i])}

\* C19: the task of a row whose query is missing, empty or whitespace only
\* never holds a slot, makes no POST and gets no response; it ends with
\* (None, None), and no line of the success file, the error file or either
\* batch comes from it
C19_BlankRowSilent ==
    \A i \in BlankRows :
       /\ tpc[i] \in {"none", "created", "done"}
       /\ posts[i] = 0
       /\ resp[i] = None
       /\ (tpc[i] = "done" => result[i] = BlankResult)
       /\ Count(outFile, i) + Count(errFile, i) = 0
       /\ Count(success_batch, i) + Count(error_batch, i) = 0
       /\ (phase \in {"sink", "file_done"} =>
              Count(disk[io.out_path], i) + Count(disk[io.err_path], i) = 0)

\* a complete file with a row whose query is whitespace only, between rows
\* that were written
C19_Witness ==
    /\ phase = "file_done"
    /\ \E i \in BlankRows : rows[i] = <<" ", " ">> /\ tpc[i] = "done" /\ 1 < i /\ i < Len(rows)
    /\ Len(outFile) + Len(errFile) = Len(rows) - 1

\* C20 as stated: with the breaker on and MAX_CNT = M, for every M, no task is
\* created and no request issued for a row after the first M rows
C20_CutoffAtMax ==
    (mode = "gather" /\ USE_BREAKER) =>
        /\ nTasks <= MAX_CNT
        /\ \A i \in Rows : i > MAX_CNT => tpc[i] = "none" /\ posts[i] = 0

C22_TimeoutKinds ==
    [][\A i \in Rows :
          (Ends(i) /\ resp'[i].kind \in {"ReadTimeout", "ConnectTimeout"}) =>
              result'[i] = [succ |-> None,
                            err  |-> error_record(i, "timeout", <<"timeout">>, NoStatus)]]_vars

\* the error records of the tasks of the current file that have ended
Failed == {i \in Rows : tpc[i] = "done" /\ Truthy(result[i].err)}

\* C23: the type of an error record is "http_status" exactly when the record
\* has a status code, and then the last attempt got a response with that
\* status, outside 200..299, and the message is "HTTP", the status and the
\* response text; without a status code the type is "timeout" exactly when
\* the message is "timeout", and "exception" otherwise; the status field is
\* the status code of the last response, or null when there was none
C23_ErrorType ==
    \A i \in Failed :
       LET e == result[i].err.error
       IN /\ e.type \in {"http_status", "timeout", "exception"}
          /\ e.type = "http_status" <=> e.status # NoStatus
          /\ e.status # NoStatus =>
                /\ resp[i].kind = "response"
                /\ e.status = resp[i].status
                /\ e.status \notin 200..299
                /\ e.message = <<"HTTP", e.status, "text">>
          /\ e.status = NoStatus =>
                /\ resp[i].kind # "response"
                /\ e.type = "timeout" <=> e.message = <<"timeout">>
                /\ e.type = "exception" <=> e.message # <<"timeout">>

\* a complete file whose error stream has a record of each type
C23_Witness ==
    /\ phase = "file_done"
    /\ \A t \in {"http_status", "timeout", "exception"} :
          \E k \in 1..Len(errFile) : errFile[k].error.type = t
    /\ \E k \in 1..Len(errFile) :
          errFile[k].error.status = 500 /\ errFile[k].error.message = <<"HTTP", 500, "text">>

\* the last POST of task i got a response with a 2xx status and a body that
\* is not JSON
RawBody(i) == Is2xx(resp[i]) /\ ~resp[i].json

\* C24: a POST answered with a 2xx status and a body that is not JSON ends
\* the row's task in that step, with no sleep and no further POST; the task
\* returns a success record whose results field is the response text and no
\* error record; in a complete file the row has one line in the success
\* stream, with the text, and none in the error stream
C24_RawTextIsSuccess ==
    /\ [][\A i \in Rows :
            (resp'[i] # resp[i] /\ RawBody(i)') =>
                /\ Ends(i)
                /\ sleeps'[i] = <<>>
                /\ Truthy(result'[i].succ)
                /\ DOMAIN result'[i].succ = {"row", "results", "latency"}
                /\ result'[i].succ.row = i
                /\ result'[i].succ.results = "text"
                /\ result'[i].err = None]_vars
    /\ [](\A i \in Rows :
            (tpc[i] # "none" /\ RawBody(i)) =>
                /\ tpc[i] = "done"
                /\ Truthy(result[i].succ)
                /\ result[i].succ.results = "text"
                /\ result[i].err = None
                /\ Count(errFile, i) + Count(error_batch, i) = 0
                /\ phase = "file_done" =>
                      /\ Count(outFile, i) = 1
                      /\ \A k \in 1..Len(outFile) :
                            outFile[k].row = i => outFile[k].results = "text")

\* a complete file in which one row was answered with text and another with
\* JSON
C24_Witness ==
    /\ phase = "file_done"
    /\ \E i, j \in 1..Len(rows) :
          /\ RawBody(i)
          /\ \E k \in 1..Len(outFile) : outFile[k].row = i /\ outFile[k].results = "text"
          /\ \E k \in 1..Len(outFile) : outFile[k].row = j /\ outFile[k].results = "json"

\* the sink loop takes a result in this step and is at a flush point after it
MidFlushStep == idx' = idx + 1 /\ (idx' % FLUSH_EVERY) = 0

\* the residual flush is made in this step
FinalFlushStep == phase = "sink" /\ phase' = "file_done"

\* the result taken in this step has a record of the kind field
Takes(field) == Truthy(result[sunk'[Len(sunk')]][field])

\* the to_jsonl calls of this step
NewWrites == SubSeq(writes', Len(writes) + 1, Len(writes'))

\* nothing is written to the stream named p, at path, in this step
NoWrite(p, path) ==
    /\ disk'[path] = disk[path]
    /\ \A k \in 1..Len(NewWrites) : NewWrites[k].path # p

\* C25: at a flush point of the sink loop and at the residual flush, a batch
\* that is empty leaves its file as it is: no to_jsonl call, no line; and a
\* residual flush that comes right after a flush point of the loop, with no
\* result taken in between, writes nothing, so that the records of the batch
\* are on disk once
C25_EmptyFlushNoOp ==
    /\ [][MidFlushStep =>
            /\ (success_batch = <<>> /\ ~Takes("succ")) =>
                  outFile' = outFile /\ NoWrite("out", io.out_path)
            /\ (error_batch = <<>> /\ ~Takes("err")) =>
                  errFile' = errFile /\ NoWrite("err", io.err_path)]_vars
    /\ [][FinalFlushStep =>
            /\ success_batch = <<>> => outFile' = outFile /\ NoWrite("out", io.out_path)
            /\ error_batch = <<>> => errFile' = errFile /\ NoWrite("err", io.err_path)]_vars
    /\ [][(FinalFlushStep /\ idx > 0 /\ (idx % FLUSH_EVERY) = 0) =>
            /\ NoWrite("out", io.out_path)
            /\ NoWrite("err", io.err_path)
            /\ \A i \in Rows :
                  Count(disk'[io.out_path], i) + Count(disk'[io.err_path], i) <= 1]_vars

\* a complete file of FLUSH_EVERY rows, all failed: the flush point of the
\* loop found the success batch empty and wrote the error batch alone, and
\* the residual flush that followed wrote nothing
C25_Witness ==
    /\ phase = "file_done"
    /\ nTasks = FLUSH_EVERY
    /\ outFile = <<>>
    /\ Len(writes) = 1
    /\ writes[1] = WriteEv("err", errFile, FLUSH_EVERY, FALSE)
    /\ Len(disk[io.err_path]) = FLUSH_EVERY
    /\ disk[io.out_path] = <<>>

\* the cutoff of 251110_확인해.py is on and stops the dispatch of this file
CutsOff == mode = "gather" /\ USE_BREAKER /\ MAX_CNT \in 1..Len(rows)

ErrorOf(r) ==
    IF r.kind = "response"
    THEN [type |-> "http_status", status |-> r.status, message |-> <<"HTTP", r.status, "text">>]
    ELSE IF r.kind = "ReadTimeout"
    THEN [type |-> "timeout", status |-> NoStatus, message |-> <<"timeout">>]
    ELSE [type |-> "exception", status |-> NoStatus, message |-> <<"exception", r.kind>>]

\* C27: a row fails only at its attempt RETRIES, after RETRIES + 1 POSTs, and
\* the type, status and message of its error record are those of the outcome
\* of that last POST, whatever the earlier attempts ended in: after HTTP 500,
\* then a read timeout, then a transport fault, the record is of type
\* "exception", with no status and the message of the fault
C27_LastAttemptOnly ==
    /\ [][\A i \in Rows :
            (Ends(i) /\ Truthy(result'[i].err)) =>
                /\ tpc[i] = "attempt"
                /\ attempt[i] = RETRIES
                /\ PostsAtEnd(i) = RETRIES + 1
                /\ result'[i].err = [row |-> i, error |-> ErrorOf(resp'[i])]]_vars
    /\ [](\A i \in Failed : result[i].err.error = ErrorOf(resp[i]))
    /\ [](api = "degrading" =>
            \A i \in Failed :
               result[i].err.error = ErrorOf(Scripts["degrading"][RETRIES + 1]))

\* a complete file of a run with two retries against the API that degrades:
\* a row got HTTP 500, then a read timeout, then a transport fault, and its
\* record is the one of the transport fault
C27_Witness ==
    /\ phase = "file_done"
    /\ api = "degrading"
    /\ RETRIES = 2
    /\ \E k \in 1..Len(errFile) :
          errFile[k].error = [type |-> "exception", status |-> NoStatus,
                              message |-> <<"exception", "Exception">>]

\* the moves of main and process_case from one position to the next: a file
\* is idle until loaded ("load"), then its tasks are created ("dispatch"),
\* then its results are drained ("sink"), then it is done ("file_done")
Moves ==
    { <<"main", "load">>, <<"load", "dispatch">>, <<"load", "sink">>,
      <<"dispatch", "sink">>, <<"sink", "file_done">>, <<"file_done", "load">>,
      <<"file_done", "main">>, <<"main", "done">>, <<"main", "crashed">>,
      <<"load", "crashed">> }

\* C28: a file goes from loading to dispatching to draining to done, in this
\* order; the dispatching of a file without rows creates nothing and is over
\* at once; draining is never skipped: a file is done only by the residual
\* flush, which is made once every result was taken and can always be made
\* then, and the next file is loaded, or the case left, only from a file that
\* is done; for a file with no row, or with blank rows only, the residual
\* flush writes nothing
C28_PhasesInOrder ==
    /\ [][phase' # phase => <<phase, phase'>> \in Moves]_vars
    /\ [][(phase = "load" /\ phase' = "sink") => rows' = <<>>]_vars
    /\ [][(phase = "load" /\ phase' = "dispatch") => rows' # <<>> /\ nTasks' = 0]_vars
    /\ [][(phase = "dispatch" /\ phase' = "sink") => nTasks' >= 1]_vars
    /\ [][phase' = "file_done" =>
            /\ phase = "sink"
            /\ idx = nTasks
            /\ \A i \in 1..nTasks : tpc[i] = "done"
            /\ NonBlank = {} =>
                  /\ writes' = <<>>
                  /\ disk' = disk
                  /\ outFile' = <<>>
                  /\ errFile' = <<>>]_vars
    /\ []((phase = "sink" /\ idx = nTasks) => ENABLED <<FinalFlush>>_vars)
    /\ []((phase = "sink" /\ idx < nTasks) =>
            ENABLED <<SinkNext \/ \E i \in Rows : TaskStart(i) \/ Acquire(i) \/ Attempt(i)
                                                   \/ Wake(i)>>_vars)

\* the second file of the second case is done, with blank rows only and
\* nothing written
C28_Witness ==
    /\ phase = "file_done"
    /\ caseIdx = 2
    /\ fileIdx = 2
    /\ rows # <<>>
    /\ NonBlank = {}
    /\ nTasks = Len(rows)
    /\ writes = <<>>

\* a file without rows is done, with nothing written
C28_WitnessEmpty ==
    /\ phase = "file_done"
    /\ rows = <<>>
    /\ writes = <<>>

\* the rows of the current file that are dispatched: all of them, or the
\* first MAX_CNT when the cutoff stops the dispatch
Dispatched == IF CutsOff THEN 1..MAX_CNT ELSE 1..Len(rows)

\* C29: while the tasks of a file are being created none of them has started:
\* no slot is taken, no POST was made and no response received; a task takes
\* its first step only when the task of the last dispatched row exists
C29_CreateBeforeAwait ==
    /\ [](phase = "dispatch" =>
            /\ sem = CONCURRENCY
            /\ InFlight = {}
            /\ doneQ = <<>>
            /\ \A i \in Rows :
                  /\ tpc[i] = (IF i <= nTasks THEN "created" ELSE "none")
                  /\ posts[i] = 0
                  /\ resp[i] = None
                  /\ json_body[i] = None)
    /\ [][\A i \in Rows :
            (tpc[i] = "created" /\ tpc'[i] # "created") =>
                /\ phase = "sink"
                /\ \A j \in Dispatched : tpc[j] # "none"
                /\ nTasks = Cardinality(Dispatched)]_vars
    /\ [][sem' < sem => phase = "sink" /\ nTasks = Cardinality(Dispatched)]_vars

\* the cutoff stopped the dispatch of a file of three rows after two: both
\* tasks exist, one has made a POST and waits for the answer to its second,
\* the other has not started
C29_Witness ==
    /\ phase = "sink"
    /\ Len(rows) = 3
    /\ CutsOff
    /\ MAX_CNT = 2
    /\ nTasks = 2
    /\ tpc[3] = "none"
    /\ \E i, j \in 1..2 : tpc[i] = "attempt" /\ posts[i] = 1 /\ tpc[j] = "created"

\* task i sends a POST in this step: its first, once it has a slot, or the
\* next one, once its sleep is over
Sends(i) == tpc[i] # "attempt" /\ tpc'[i] = "attempt"

\* task i ends in this step with a success record
Succeeds(i) == Ends(i) /\ Truthy(result'[i].succ)

\* C30: the latency of a success record is the time from the sending of the
\* POST that succeeded to its response, rounded to four decimals: start is
\* the clock at the moment that POST is sent, after the wait for a slot and
\* after the sleep that follows an earlier failed attempt, and is kept until
\* the response; when the row is the only one at work the latency is the
\* time of the successful POST alone, however long the earlier attempt and
\* the sleep took; an error record has no latency
C30_LatencyOfLastAttempt ==
    /\ [][\A i \in Rows : Sends(i) => start'[i] = now']_vars
    /\ [][\A i \in Rows :
            (tpc[i] = "attempt" /\ tpc'[i] = "attempt") => start'[i] = start[i]]_vars
    /\ [][\A i \in Rows :
            Succeeds(i) =>
                /\ tpc[i] = "attempt"
                /\ now' - now \in dur
                /\ result'[i].succ.latency = Round4(now' - start[i])
                /\ Cardinality(NonBlank) = 1 =>
                      result'[i].succ.latency = Round4(now' - now)]_vars
    /\ [](\A i \in Failed :
            /\ DOMAIN result[i].err = {"row", "error"}
            /\ DOMAIN result[i].err.error = {"type", "status", "message"})

\* a complete file whose one row with a question failed after 4 ticks, slept
\* 0.8 s and succeeded after 16 ticks: its latency is 20 ticks, of the 80020
\* on the clock
C30_Witness ==
    /\ phase = "file_done"
    /\ Cardinality(NonBlank) = 1
    /\ now = 4 + Backoff(0) * TICKS + 16
    /\ Len(outFile) = 1
    /\ outFile[1].latency = 20

\* the lines appended to path p in this step
Appended(p) == SubSeq(disk'[p], Len(disk[p]) + 1, Len(disk'[p]))

\* the lines appended to the stream f of the current file in this step
Grown(f, g) == SubSeq(g, Len(f) + 1, Len(g))

\* a file on disk gets lines in this step
Appends == phase # "file_done" /\ disk' # disk

\* C31: every append to an output file is made by the sink loop of the file
\* being processed, in a step in which no row task moves and no slot changes
\* hands; it goes to the paths of the current io pair only, each written at
\* most once in the step, and puts whole records at the end of the file: only
\* success records, the batch just flushed, at the success path and only error
\* records at the error path; a step of a row task leaves every file as it is
C31_SingleWriter ==
    /\ [][Appends =>
            /\ phase = "sink"
            /\ taskVars' = taskVars
            /\ sem' = sem
            /\ \A p \in Paths :
                  /\ IsPrefix(disk[p], disk'[p])
                  /\ (p \notin {io.out_path, io.err_path} => disk'[p] = disk[p])
            /\ Appended(io.out_path) = Grown(outFile, outFile')
            /\ Appended(io.err_path) = Grown(errFile, errFile')
            /\ \A k \in 1..Len(Appended(io.out_path)) :
                  "results" \in DOMAIN Appended(io.out_path)[k]
            /\ \A k \in 1..Len(Appended(io.err_path)) :
                  "error" \in DOMAIN Appended(io.err_path)[k]
            /\ Len(NewWrites) \in 1..2
            /\ \A a, b \in 1..Len(NewWrites) :
                  NewWrites[a].path = NewWrites[b].path => a = b]_vars
    /\ [][phase = "sink" /\ taskVars' # taskVars =>
            disk' = disk /\ outFile' = outFile /\ errFile' = errFile /\ writes' = writes]_vars

\* both files of the second case have lines on disk: the second file's sink
\* loop has flushed a success and a failure while a row of the file is still
\* waiting for the answer to its POST
C31_Witness ==
    /\ phase = "sink"
    /\ caseIdx = 2
    /\ fileIdx = 2
    /\ disk[io.out_path] # <<>>
    /\ disk[io.err_path] # <<>>
    /\ \E i \in Rows : tpc[i] = "attempt"

\* the tasks in a backoff sleep
Sleeping == {i \in Rows : tpc[i] = "sleeping"}

\* the tasks whose process_one_row waits at "async with sem"
Waiting == {i \in 1..nTasks : tpc[i] = "created" /\ HasQuery(i)}

\* C33: a task keeps its slot from its first attempt to its terminal outcome,
\* backoff sleeps included: going to sleep and waking up leave the free slots
\* as they are, the tasks between first attempt and outcome (sleeping ones
\* counted) are never more than CONCURRENCY and are CONCURRENCY less the free
\* slots, and while CONCURRENCY tasks sleep no other task is admitted
C33_SlotHeldInBackoff ==
    /\ [](phase = "sink" =>
            /\ Cardinality(InFlight) <= CONCURRENCY
            /\ sem = CONCURRENCY - Cardinality(InFlight)
            /\ Sleeping \subseteq InFlight)
    /\ [](Cardinality(Sleeping) = CONCURRENCY =>
            \A j \in Rows : ~ENABLED Acquire(j))
    /\ [][\A i \in Rows :
            (tpc[i] = "attempt" /\ tpc'[i] = "sleeping")
               \/ (tpc[i] = "sleeping" /\ tpc'[i] = "attempt") =>
                  sem' = sem /\ InFlight' = InFlight]_vars
    /\ [][Cardinality(Sleeping) = CONCURRENCY =>
            \A j \in Waiting : tpc'[j] = "created"]_vars

\* CONCURRENCY tasks sleep between their attempts, no slot is free and
\* another row with a question waits for one
C33_Witness ==
    /\ Cardinality(Sleeping) = CONCURRENCY
    /\ sem = 0
    /\ Waiting # {}

\* C34: in input-order mode, while a task of the file has not reached its
\* terminal outcome the sink loop has not begun: no result is taken, both
\* batches are empty, no to_jsonl call was made and the file's two paths have
\* no line of the file (that a flush can come earlier in completion-order
\* mode is the witness)
C34_GatherIsBarrier ==
    (mode = "gather" /\ phase = "sink" /\ ~AllDone) =>
        /\ idx = 0
        /\ sunk = <<>>
        /\ success_batch = <<>>
        /\ error_batch = <<>>
        /\ writes = <<>>
        /\ outFile = <<>>
        /\ errFile = <<>>
        /\ disk[io.out_path] = <<>>
        /\ disk[io.err_path] = <<>>

\* in completion-order mode the first file has had a flush of a failure, whose
\* line is on disk, while a task of the file sleeps before its second attempt
C34_Witness ==
    /\ mode = "as_completed"
    /\ phase = "sink"
    /\ caseIdx = 1
    /\ ~AllDone
    /\ Sleeping # {}
    /\ \E k \in 1..Len(writes) : ~writes[k].final /\ writes[k].path = "err"
    /\ disk[io.err_path] # <<>>

\* in input-order mode every task of a file of MaxRows rows but one has ended
\* and the sink loop waits
C34_WitnessGather ==
    /\ mode = "gather"
    /\ phase = "sink"
    /\ nTasks = MaxRows
    /\ Cardinality({i \in Rows : tpc[i] = "done"}) = MaxRows - 1
    /\ idx = 0

\* the smaller of two numbers
Min(a, b) == IF a <= b THEN a ELSE b

\* the cutoff is enabled with a maximum of at least 1
CutoffOn == mode = "gather" /\ USE_BREAKER /\ MAX_CNT >= 1

\* the rows with a question among the first m rows of the file
NonBlankIn(m) == {i \in NonBlank : i <= m}

\* C35: with the cutoff enabled and a maximum M >= 1, the tasks of a file of N
\* rows are those of its first min(N, M) rows, blank rows counted, and the
\* records written for the file are as many as the rows with a question among
\* its first M rows, each of them from one of these rows
C35_CutoffCountsRows ==
    CutoffOn =>
        /\ (phase \in {"sink", "file_done"} => nTasks = Min(Len(rows), MAX_CNT))
        /\ (phase = "dispatch" => nTasks < Min(Len(rows), MAX_CNT))
        /\ (phase = "file_done" =>
                /\ Len(outFile) + Len(errFile) = Cardinality(NonBlankIn(MAX_CNT))
                /\ \A i \in 1..Len(rows) :
                      Count(outFile, i) + Count(errFile, i) =
                         IF i \in NonBlankIn(MAX_CNT) THEN 1 ELSE 0)

\* a file with a blank row and M rows with questions, cut off at M = 2: fewer
\* than M records are written
C35_Witness ==
    /\ CutoffOn
    /\ phase = "file_done"
    /\ MAX_CNT = 2
    /\ Cardinality(NonBlank) >= MAX_CNT
    /\ Len(rows) > MAX_CNT
    /\ Len(outFile) + Len(errFile) < MAX_CNT

\* the DataFrame last read lacks a required column: load_dataframe raised
LoadFailed == excel # None /\ missing(excel) # {}

\* the two streams hold one line for every row with a question of the file
\* whose rows are in df, and no other line
FullyWritten ==
    /\ Len(outFile) + Len(errFile) = Cardinality(NonBlank)
    /\ \A i \in 1..Len(rows) :
          Count(outFile, i) + Count(errFile, i) = IF HasQuery(i) THEN 1 ELSE 0

\* C36: when loading the k-th file of a case fails, the run is in its error
\* state and takes no further step, so no later file and no later case is
\* started; the failing load leaves both streams and every file on disk as
\* they were: the streams of file k-1, which were fully on disk when that file
\* ended, are still complete, and the paths of file k, of the later files and
\* of the later cases have no line
C36_LoadErrorStopsRun ==
    /\ [](phase = "file_done" =>
            /\ FullyWritten
            /\ disk[io.out_path] = outFile
            /\ disk[io.err_path] = errFile)
    /\ [](LoadFailed =>
            /\ phase = "crashed"
            /\ (fileIdx > 1 => FullyWritten)
            /\ (fileIdx = 1 /\ caseIdx = 1 => outFile = <<>> /\ errFile = <<>>)
            /\ disk[io.out_path] = <<>>
            /\ disk[io.err_path] = <<>>
            /\ \A p \in LaterPaths(caseIdx, fileIdx) : disk[p] = <<>>)
    /\ [][LoadFailed' =>
            UNCHANGED <<caseIdx, fileIdx, sem, rows, nTasks, taskVars, sinkVars, disk>>]_vars
    /\ [][~LoadFailed]_vars

\* the second file of the first case lacks a required column: the run ended
\* there, with the successes and failures of the first file written and the
\* second case never started
C36_Witness ==
    /\ phase = "crashed"
    /\ LoadFailed
    /\ caseIdx = 1
    /\ fileIdx = 2
    /\ Len(cases) = 2
    /\ outFile # <<>>
    /\ errFile # <<>>
    /\ Len(rows) = MaxRows

\* the error of a row whose request_with_retry fell through its loop
UnknownError == [type |-> "exception", status |-> NoStatus, message |-> <<"unknown">>]

\* the tasks of the current file that have returned
Returned == {i \in 1..nTasks : tpc[i] = "done"}

\* C40: with RETRIES >= 0 no row ends with the message "unknown": a row with
\* a question ends after a POST, in a success or in the error of that POST;
\* with RETRIES < 0 no task ever has a POST in flight or sleeps, the clock of
\* the requests stands still, and every row with a question ends in an error
\* record of type "exception", no status and message "unknown", which is what
\* the error stream of the finished file holds, the success stream being empty
C40_FallThrough ==
    /\ (RETRIES >= 0 =>
            /\ \A i \in Returned :
                  HasQuery(i) =>
                     /\ resp[i] # None
                     /\ (Truthy(result[i].err) =>
                            /\ result[i].err.error.message # <<"unknown">>
                            /\ result[i].err.error = ErrorOf(resp[i]))
            /\ \A k \in 1..Len(errFile) : errFile[k].error.message # <<"unknown">>
            /\ \A k \in 1..Len(error_batch) : error_batch[k].error.message # <<"unknown">>)
    /\ (RETRIES < 0 =>
            /\ \A i \in Rows :
                  /\ tpc[i] \notin {"attempt", "sleeping"}
                  /\ resp[i] = None
                  /\ posts[i] = 0
                  /\ sleeps[i] = <<>>
                  /\ json_body[i] = None
            /\ now = 0
            /\ \A i \in Returned :
                  HasQuery(i) =>
                     result[i] = [succ |-> None, err |-> [row |-> i, error |-> UnknownError]]
            /\ outFile = <<>>
            /\ \A k \in 1..Len(errFile) : errFile[k].error = UnknownError
            /\ (phase = "file_done" => Len(errFile) = Cardinality(NonBlank)))

\* with RETRIES = -1 a file of a blank row and a row with a question has
\* ended: its error stream holds the one line of the fall-through
C40_Witness ==
    /\ RETRIES < 0
    /\ phase = "file_done"
    /\ Len(rows) = 2
    /\ ~HasQuery(1)
    /\ Len(errFile) = 1
    /\ errFile[1] = [row |-> 2, error |-> UnknownError]
    /\ sem = CONCURRENCY

\* robust_post runs: the step, if any, is one post_json call of its loop
Posts == ipc \in {"expand", "intent"} /\ vars' # vars

\* robust_post goes to another iteration in this step
TriesAgain == Posts /\ rp_attempt' = rp_attempt + 1

\* robust_post returns in this step
Returns == Posts /\ rp_attempt' = 0

\* the dict robust_post returns in this step
Handed == IF ipc = "expand" THEN expand_call' ELSE intent_call'

\* C32: robust_post always returns a dict and never raises: a call makes at
\* most RETRY + 1 POSTs; it goes to another POST only when the last one
\* raised and fewer than RETRY + 1 were made; on the first response it
\* returns the dict of that response, with its status code whatever it is
\* and its body; when POST number RETRY + 1 raises it returns the dict with
\* status_code None, response None and the error of that last POST; main
\* ends in an exception only after robust_post has returned
C32_RobustPost ==
    /\ [](ipc \in {"expand", "intent"} => rp_attempt \in 0..RETRY)
    /\ [][Posts => TriesAgain \/ Returns]_vars
    /\ [][TriesAgain =>
            /\ llm_resp'.kind = "raise"
            /\ rp_attempt < RETRY
            /\ last_exc' = llm_resp'.exc
            /\ UNCHANGED <<ipc, qi, expand_call, intent_call, results_ok, results_failed>>]_vars
    /\ [][Posts /\ llm_resp'.kind = "response" =>
            /\ Returns
            /\ DOMAIN Handed = {"status_code", "response"}
            /\ Handed.status_code = llm_resp'.status_code
            /\ Handed.response =
                  IF llm_resp'.json = NotJson THEN Dict([raw_text |-> Str("text")])
                  ELSE llm_resp'.json]_vars
    /\ [][Posts /\ llm_resp'.kind = "raise" /\ rp_attempt = RETRY =>
            /\ Returns
            /\ Handed = [status_code |-> NoStatus, response |-> PyNone,
                           error |-> llm_resp'.exc]]_vars
    /\ [][Posts /\ ipc' = "crashed" =>
            Returns /\ Handed.status_code \in 200..299]_vars

\* a query failed after RETRY + 1 POSTs that raised, the last one a read
\* timeout after a connect error, and another failed on the first response,
\* a 500
C32_Witness ==
    /\ \E k \in 1..Len(results_failed) :
          /\ results_failed[k].result.status_code = NoStatus
          /\ results_failed[k].result.error = "ReadTimeout"
    /\ \E k \in 1..Len(results_failed) : results_failed[k].result.status_code = 500
    /\ ipc \in {"expand", "intent"}
    /\ rp_attempt = RETRY
    /\ last_exc = "ConnectError"

\* the records of query i in a list of records
RecordsOf(list, i) == Cardinality({k \in 1..Len(list) : list[k].query = i})

\* the loop of main is over, or main has ended, after queries were found
LoopOver == queries # <<>> /\ ipc \in {"save", "done", "crashed"}

\* C39: every query with text has exactly one record, in exactly one of
\* results_ok and results_failed, once the loop is over, and while the loop
\* runs every earlier query has one and the current one has none; the
\* intent request is made only after the expand call returned a 2xx status
\* and its answer parsed to a non-empty query_complete; a failure is recorded
\* with the stage main is in and the next query (or the saving) follows; no
\* query ends main, and both lists are saved at the end
C39_OneRecordPerQuery ==
    /\ [](LoopOver =>
            \A i \in 1..Len(queries) :
               RecordsOf(results_ok, i) + RecordsOf(results_failed, i) = 1)
    /\ [](ipc \in {"expand", "intent"} =>
            \A i \in 1..Len(queries) :
               RecordsOf(results_ok, i) + RecordsOf(results_failed, i) =
                  IF i < qi THEN 1 ELSE 0)
    /\ [](ipc = "intent" =>
            /\ HttpOk(expand_call)
            /\ query_complete.t = "str"
            /\ ~Falsy(query_complete))
    /\ [][Len(results_failed') > Len(results_failed) =>
            /\ results_failed' = Append(results_failed, results_failed'[Len(results_failed')])
            /\ results_failed'[Len(results_failed')].query = qi
            /\ results_failed'[Len(results_failed')].stage[1] = ipc
            /\ results_ok' = results_ok
            /\ IF qi < Len(queries)
               THEN qi' = qi + 1 /\ ipc' = "expand"
               ELSE ipc' = "save"]_vars
    /\ [](queries # <<>> => ipc # "crashed")
    /\ [](ipc = "done" /\ queries # <<>> =>
            /\ jsonl["results.jsonl"].lines = results_ok
            /\ jsonl["failed.jsonl"].lines = results_failed)

\* the tasks a handle_task has taken and is done with: it is back at
\* queue.get, or it has ended
Left == {task_info[w].id : w \in {v \in Workers : wpc[v] \in {"get", "ended"}}} \ {0}

\* C37: a task that a worker has taken and is done with was given to
\* update_task exactly once and to queue.task_done exactly once; no task is
\* given to either twice; the status given is "failed" with one error
\* message sent when a step raised and "success" with none otherwise; a
\* worker takes the next task only at the top of its loop, and no worker's
\* loop ends
C37_FinalisedOnce ==
    /\ [](\A id \in Left : Len(updates[id]) = 1 /\ task_dones[id] = 1)
    /\ [](\A id \in TaskIds :
            /\ Len(updates[id]) <= 1
            /\ task_dones[id] <= 1
            /\ error_messages[id] <= 1
            /\ (updates[id] # <<>> =>
                  updates[id][1] = IF error_messages[id] = 1 THEN "failed" ELSE "success"))
    /\ [][\A w \in Workers :
            /\ (wpc[w] = "try" /\ wpc'[w] = "except" => raised'[w] \in {STEPS[k] : k \in DOMAIN STEPS})
            /\ (wpc[w] = "try" /\ wpc'[w] = "finally" =>
                  raised'[w] = NoExc /\ task_status'[w] = "success")
            /\ (task_info'[w] # task_info[w] => wpc[w] = "get")]_vars
    /\ [](\A w \in Workers : wpc[w] # "ended")

\* the ids of a sequence of tasks
Ids(tasks) == [k \in 1..Len(tasks) |-> tasks[k].id]

\* the task poll_task holds while it waits in queue.put
Pending == IF ppc = "put" THEN <<fetched_task>> ELSE <<>>

\* no task is lost, doubled or overtaken: the tasks get_task has given are,
\* in the order they were fetched, those queue.get has handed out, then those
\* in the queue, then the one poll_task waits to put; the items are the
\* fetched tasks themselves, and a worker holds a task that was handed out
LossFreeFifo ==
    /\ Ids(fetched) = received \o Ids(queue) \o Ids(Pending)
    /\ \A k \in 1..Len(queue) : queue[k] = fetched[queue[k].id]
    /\ \A k \in 1..Len(Pending) : Pending[k] = fetched[Pending[k].id]
    /\ \A w \in Workers :
          task_info[w] # NoTask =>
             /\ task_info[w] = fetched[task_info[w].id]
             /\ \E k \in 1..Len(received) : received[k] = task_info[w].id

\* queue.put and queue.get work at the two ends of the queue: put appends
\* the fetched task, get hands out the oldest item, and no other step
\* changes the queue; while put waits, poll_task keeps its task
EndsOnly ==
    /\ queue' # queue =>
          \/ ppc = "put" /\ queue' = Append(queue, fetched_task) /\ received' = received
          \/ queue # <<>> /\ queue' = Tail(queue) /\ received' = Append(received, Head(queue).id)
    /\ received' # received => queue' # queue
    /\ (ppc = "put" /\ ppc' = "put") => fetched_task' = fetched_task /\ fetched' = fetched
    /\ (ppc = "put" /\ ppc' # "put") => queue' = Append(queue, fetched_task)

\* C38 as stated: the queue never holds more than TASK_QUEUE_SIZE items,
\* poll_task cannot put while the queue holds TASK_QUEUE_SIZE items and keeps
\* its task meanwhile, every fetched task is enqueued exactly once and the
\* tasks are handed to handle_task in the order they were fetched
C38_QueueBounded ==
    /\ [](Len(queue) <= TASK_QUEUE_SIZE)
    /\ [](Len(queue) >= TASK_QUEUE_SIZE => ~ENABLED QueuePut)
    /\ []LossFreeFifo
    /\ [][EndsOnly]_vars

\* C38, amended: with TASK_QUEUE_SIZE of 1 or more the queue never holds
\* more than TASK_QUEUE_SIZE items and poll_task cannot put while it holds
\* that many; with TASK_QUEUE_SIZE of 0 or less the queue has no limit and
\* put never waits; in both cases poll_task keeps its task while it waits,
\* every fetched task is enqueued exactly once and the tasks are handed to
\* handle_task in the order they were fetched
C38_QueueBoundedLossFree ==
    /\ [](TASK_QUEUE_SIZE >= 1 =>
            /\ Len(queue) <= TASK_QUEUE_SIZE
            /\ (Len(queue) = TASK_QUEUE_SIZE => ~ENABLED QueuePut))
    /\ [](TASK_QUEUE_SIZE <= 0 /\ ppc = "put" => ENABLED QueuePut)
    /\ [](ppc = "put" /\ Len(queue) < TASK_QUEUE_SIZE => ENABLED QueuePut)
    /\ []LossFreeFifo
    /\ [][EndsOnly]_vars

\* the queue of a TASK_QUEUE_SIZE of 1 or more is full, poll_task waits in
\* queue.put with one more fetched task, and a worker handles a task that
\* went through the queue before
C38_Witness ==
    /\ TASK_QUEUE_SIZE >= 1
    /\ Len(queue) = TASK_QUEUE_SIZE
    /\ ppc = "put"
    /\ ~ENABLED QueuePut
    /\ received # <<>>
    /\ \E w \in Workers : wpc[w] \in {"received", "try", "except", "finally"}
====
